---- MODULE Spec2Model ----
(***************************************************************************)
(* Model of the LinkedIn crawl pipeline of this repository:                *)
(*   src/linkedin-scraper.js   scheduled scraper (retry, heuristic, login) *)
(*   src/unnamed/part_000      earlier scheduled scraper                   *)
(*   src/server.js             on-demand API, one session for many URLs    *)
(*   src/unnamed/part_001      earlier on-demand API, one profile per run  *)
(*                                                                         *)
(* The module holds one state machine per component; every specification   *)
(* below drives one component and leaves the others' variables unchanged.  *)
(***************************************************************************)
EXTENDS Integers, Sequences, FiniteSets, TLC

VARIABLES
  navUrl,      \* safeGoto: the url argument of the last call
  navOuts,     \* safeGoto: what page.goto does at attempt 1..MAX_RETRIES
  navRes,      \* safeGoto: the last call's outcome (return value and trace)
  hVariant,    \* checkIfLoggedIn: which file's function was applied
  hChecks,     \* checkIfLoggedIn: what page.evaluate read from the page
  hEvalOk,     \* checkIfLoggedIn: FALSE when page.evaluate threw
  hResult,     \* checkIfLoggedIn: the returned value
  store,       \* the 'LinkedIn Posts' table: per Post URL, how many records hold it
  sv,          \* per persistence call in progress: position, list, index, savedCount
  pAdded,      \* per call: the records it has created so far, per Post URL
  pClean,      \* per call: TRUE while no store call of it has failed
  tw,          \* the twice-in-a-row scenario: the first call's list and outcome
  lg,          \* loginToLinkedIn: configuration, position and result
  lgLog,       \* loginToLinkedIn: what it has done to the page, in order
  page,        \* the browser page: its location and the five structural signals
  run,         \* one run: entry point, configuration, sources, position, outcome
  runLog,      \* one run: what it has done, in order
  exVariant,   \* extraction: which file's extraction code was applied
  exElems,     \* extraction: the post elements the selectors found on the page
  exCap,       \* extraction: the requested cap (maxPosts)
  exOut,       \* extraction: the returned items
  nuVariant,   \* activity URL: which file built it
  nuUrl,       \* activity URL: the source URL given
  nuOut,       \* activity URL: the URLs built from it, per variant
  pxCookies,   \* predictExpiry: the cookie set given
  pxNow,       \* predictExpiry: the clock at the call
  pxOut,       \* predictExpiry: the returned report
  cxRun,       \* overlapping runs: per run its position and its local `browser`
  cxCtx,       \* overlapping runs: the browsers launched so far, in launch order
  dsDoc,       \* item discovery: what each selector matches in the document
  dsUsed       \* item discovery: how many selectors were consulted

navVars  == <<navUrl, navOuts, navRes>>
heurVars == <<hVariant, hChecks, hEvalOk, hResult>>
persVars == <<store, sv, pAdded, pClean>>
persAll  == <<persVars, tw>>
loginVars == <<lg, lgLog, page>>
runVars  == <<run, runLog>>
exVars   == <<exVariant, exElems, exCap, exOut>>
nuVars   == <<nuVariant, nuUrl, nuOut>>
pxVars   == <<pxCookies, pxNow, pxOut>>
cxVars   == <<cxRun, cxCtx>>
dsVars   == <<dsDoc, dsUsed>>
fnVars   == <<exVars, nuVars, pxVars, cxVars, dsVars>>
vars     == <<navVars, heurVars, persVars, tw, loginVars, runVars, fnVars>>

(***************************************************************************)
(* Strings.  TLC treats strings as sequences of characters, so             *)
(* String.prototype.includes is a real substring search.                   *)
(***************************************************************************)
Includes(s, p) ==
  \E i \in 1..(Len(s) - Len(p) + 1) : SubSeq(s, i, i + Len(p) - 1) = p

(***************************************************************************)
(* safeGoto  (src/linkedin-scraper.js:119-152)                             *)
(***************************************************************************)
MAX_RETRIES == 3
BACKOFF_MS  == 5000

\* What one page.goto can do: resolve with an OK response, resolve with a
\* non-OK response, resolve with no response object (null), or throw.
GotoOutcomes == {"ok", "notok", "null", "throw"}

GotoEvent(attempt, outcome) ==
  [type |-> "goto", attempt |-> attempt, outcome |-> outcome, ms |-> 0]
WaitEvent(attempt, ms) ==
  [type |-> "wait", attempt |-> attempt, outcome |-> "none", ms |-> ms]

\* The loop with its bound one short: MAX_RETRIES - 1 attempts.
RECURSIVE safeGotoLoop_OneAttemptShort(_, _, _)
safeGotoLoop_OneAttemptShort(i, outs, ev) ==
  IF ~(i < MAX_RETRIES - 1)
  THEN [ok |-> FALSE, threw |-> FALSE, events |-> ev]
  ELSE
    LET o   == outs[i + 1]
        ev1 == Append(ev, GotoEvent(i + 1, o))
    IN  CASE o = "ok" -> [ok |-> TRUE, threw |-> FALSE, events |-> ev1]
          [] o = "throw" ->
               safeGotoLoop_OneAttemptShort(i + 1, outs,
                   Append(ev1, WaitEvent(i + 1, (i + 1) * BACKOFF_MS)))
          [] OTHER -> safeGotoLoop_OneAttemptShort(i + 1, outs, ev1)

\* One iteration of the for loop, i counting from 0 as in the source; `outs`
\* gives page.goto's behaviour per attempt, `ev` is the trace so far.
RECURSIVE safeGotoLoop(_, _, _)
safeGotoLoop(i, outs, ev) ==
  IF ~(i < MAX_RETRIES)
  THEN [ok |-> FALSE, threw |-> FALSE, events |-> ev]
  ELSE
    LET o   == outs[i + 1]
        ev1 == Append(ev, GotoEvent(i + 1, o))
    IN  CASE o = "ok" ->
               \* response && response.ok()
               [ok |-> TRUE, threw |-> FALSE, events |-> ev1]
          [] o = "throw" ->
               \* catch (error): back off unless this was the last attempt
               IF i < MAX_RETRIES - 1
               THEN safeGotoLoop(i + 1, outs,
                                 Append(ev1, WaitEvent(i + 1, (i + 1) * BACKOFF_MS)))
               ELSE safeGotoLoop(i + 1, outs, ev1)
          [] OTHER ->
               \* non-OK or null response: logged, the loop goes on at once
               safeGotoLoop(i + 1, outs, ev1)

safeGoto(outs) == safeGotoLoop(0, outs, <<>>)

GotoScripts == [1..MAX_RETRIES -> GotoOutcomes]

NavTargets == { "https://www.linkedin.com",
                "https://www.linkedin.com/feed/",
                "https://www.linkedin.com/login" }

NoCall == [ok |-> FALSE, threw |-> FALSE, events |-> <<>>]

NavInit ==
  /\ navUrl  = ""
  /\ navOuts = [k \in 1..MAX_RETRIES |-> "ok"]
  /\ navRes  = NoCall

\* A call safeGoto(page, url) against a page that behaves as `outs` says.
NavCall ==
  \E url \in NavTargets, outs \in GotoScripts :
    /\ navUrl'  = url
    /\ navOuts' = outs
    /\ navRes'  = safeGoto(outs)
    /\ UNCHANGED <<heurVars, persAll, loginVars, runVars, fnVars>>

(***************************************************************************)
(* checkIfLoggedIn, the post-login heuristic                               *)
(*   src/linkedin-scraper.js:201-241, src/server.js:105-120,               *)
(*   src/unnamed/part_001:58-73                                            *)
(***************************************************************************)
SignalNames ==
  {"hasGlobalNav", "hasProfileIcon", "hasFeedContent", "hasSearchBar", "hasMessaging"}

PageUrls == { "https://www.linkedin.com/",
              "https://www.linkedin.com/feed/",
              "https://www.linkedin.com/mynetwork/",
              "https://www.linkedin.com/in/jdoe/",
              "https://www.linkedin.com/company/acme/",
              "https://www.linkedin.com/login",
              "https://www.linkedin.com/checkpoint/challenge/abc" }

\* What page.evaluate returns: the five structural checks and the location.
Checks ==
  [hasGlobalNav : BOOLEAN, hasProfileIcon : BOOLEAN, hasFeedContent : BOOLEAN,
   hasSearchBar : BOOLEAN, hasMessaging : BOOLEAN, url : PageUrls]

positiveChecks(c) == Cardinality({s \in SignalNames : c[s]})

urlCheck(c) ==
  Includes(c.url, "/feed") \/ Includes(c.url, "/mynetwork") \/ Includes(c.url, "/in/")

\* The heuristic with the URL corroboration dropped: any one signal passes.
checkIfLoggedIn_NoUrlCorroboration(c, evalOk) ==
  evalOk /\ positiveChecks(c) >= 1

\* linkedin-scraper.js: a throw of page.evaluate is caught and gives false.
checkIfLoggedIn(c, evalOk) ==
  IF ~evalOk THEN FALSE
  ELSE positiveChecks(c) >= 2 \/ (positiveChecks(c) >= 1 /\ urlCheck(c))

\* server.js: two of the checks, or the location alone.
checkIfLoggedIn_server(c, evalOk) ==
  IF ~evalOk THEN FALSE
  ELSE c.hasGlobalNav \/ c.hasProfileIcon \/
       Includes(c.url, "/feed") \/ Includes(c.url, "/in/")

\* part_001: the same function as server.js.
checkIfLoggedIn_part001(c, evalOk) ==
  IF ~evalOk THEN FALSE
  ELSE c.hasGlobalNav \/ c.hasProfileIcon \/
       Includes(c.url, "/feed") \/ Includes(c.url, "/in/")

HeurVariants == {"linkedin-scraper", "server", "part_001"}

HeurInit ==
  /\ hVariant = "none"
  /\ hChecks  = [hasGlobalNav |-> FALSE, hasProfileIcon |-> FALSE,
                 hasFeedContent |-> FALSE, hasSearchBar |-> FALSE,
                 hasMessaging |-> FALSE, url |-> "https://www.linkedin.com/"]
  /\ hEvalOk  = TRUE
  /\ hResult  = FALSE

\* One call of checkIfLoggedIn(page) on a page in any state.
HeurCheck ==
  \E v \in HeurVariants, c \in Checks, evalOk \in BOOLEAN :
    /\ hVariant' = v
    /\ hChecks'  = c
    /\ hEvalOk'  = evalOk
    /\ hResult'  = CASE v = "linkedin-scraper" -> checkIfLoggedIn(c, evalOk)
                     [] v = "server"           -> checkIfLoggedIn_server(c, evalOk)
                     [] v = "part_001"         -> checkIfLoggedIn_part001(c, evalOk)
    /\ UNCHANGED <<navVars, persAll, loginVars, runVars, fnVars>>

(***************************************************************************)
(* The dedup-and-persist step                                              *)
(*   src/linkedin-scraper.js:71-113, 566-593   postExists, savePost and    *)
(*                                             scrapeProfilePosts' loop    *)
(*   src/server.js:424-470                     saveResultsToAirtable       *)
(*   src/unnamed/part_001:238-275              saveToAirtable              *)
(* Each store call is one step, so that calls of different runs can be     *)
(* interleaved; a store call either answers or throws.                     *)
(***************************************************************************)
MaxPosts        == 2    \* longest list of extracted posts
MaxStoreRecords == 3    \* a new call starts only below this many records

PostUrls == { "https://www.linkedin.com/feed/update/urn:li:activity:1",
              "https://www.linkedin.com/feed/update/urn:li:activity:2" }

PostLists == UNION { [1..n -> PostUrls] : n \in 0..MaxPosts }

Savers == {1, 2}

PersistVariants == {"linkedin-scraper", "server", "part_001"}

RECURSIVE SumOver(_, _)
SumOver(f, S) ==
  IF S = {} THEN 0
  ELSE LET u == CHOOSE x \in S : TRUE IN f[u] + SumOver(f, S \ {u})

Total(f) == SumOver(f, DOMAIN f)

Range(q) == { q[i] : i \in 1..Len(q) }

NoRecords == [u \in PostUrls |-> 0]

\* base('LinkedIn Posts').create([...]): one more record with this Post URL.
Create(st, url) == [st EXCEPT ![url] = @ + 1]

\* postExists with the lookup's error ignored: the catch is missing, the
\* select's answer is all there is.
postExists_AlwaysAbsent(st, url, lookupOk) == FALSE

\* linkedin-scraper.js postExists: records.length > 0, and false when the
\* select throws.
postExists(st, url, lookupOk) ==
  IF lookupOk THEN st[url] > 0 ELSE FALSE

\* linkedin-scraper.js savePost: true after create, false when create throws.
savePost(st, url, writeOk) ==
  IF writeOk THEN [store |-> Create(st, url), saved |-> TRUE]
  ELSE [store |-> st, saved |-> FALSE]

\* scrapeProfilePosts: const exists = await postExists(...); if (!exists) ...
scrapeProfilePosts_check(st, url, lookupOk) ==
  IF ~postExists(st, url, lookupOk) THEN "write" ELSE "next"

\* The existence check left out: every post whose select answers is created.
saveResultsToAirtable_check_NoDedup(st, url, lookupOk) ==
  IF ~lookupOk THEN "next" ELSE "write"

\* saveResultsToAirtable: a throwing select lands in the post's catch;
\* otherwise if (existing.length === 0) create.
saveResultsToAirtable_check(st, url, lookupOk) ==
  IF ~lookupOk THEN "next"
  ELSE IF st[url] = 0 THEN "write" ELSE "next"

\* saveToAirtable (part_001): the same loop body.
saveToAirtable_check(st, url, lookupOk) ==
  IF ~lookupOk THEN "next"
  ELSE IF st[url] = 0 THEN "write" ELSE "next"

IdleSaver ==
  [pc |-> "idle", variant |-> "none", posts |-> <<>>, idx |-> 0, saved |-> 0,
   failed |-> {}]

\* After one post: the next one, or the end of the for...of loop.
NextPost(r) ==
  IF r.idx < Len(r.posts)
  THEN [r EXCEPT !.pc = "lookup", !.idx = @ + 1]
  ELSE [r EXCEPT !.pc = "done"]

TwInit == [stage |-> 0, posts |-> <<>>, new1 |-> 0, fresh1 |-> FALSE,
           saved1 |-> 0, clean1 |-> FALSE]

\* No persistence call in progress.
PersIdle ==
  /\ sv     = [p \in Savers |-> IdleSaver]
  /\ pAdded = [p \in Savers |-> NoRecords]
  /\ pClean = [p \in Savers |-> TRUE]
  /\ tw     = TwInit

\* Any store contents in which a Post URL is held by at most one record.
PersInit  == store \in [PostUrls -> 0..1] /\ PersIdle

\* The store as the other components' specifications leave it.
PersQuiet == store = NoRecords /\ PersIdle

\* The persistence loop is entered with the list `posts`.
BeginCall(p, v, posts) ==
  /\ sv[p].pc = "idle"
  /\ sv' = [sv EXCEPT ![p] =
              [pc |-> IF Len(posts) = 0 THEN "done" ELSE "lookup",
               variant |-> v, posts |-> posts,
               idx |-> IF Len(posts) = 0 THEN 0 ELSE 1, saved |-> 0,
               failed |-> {}]]
  /\ pAdded' = [pAdded EXCEPT ![p] = NoRecords]
  /\ pClean' = [pClean EXCEPT ![p] = TRUE]
  /\ UNCHANGED store

\* The existence lookup for the current post.
LookupStep(p, lookupOk) ==
  /\ sv[p].pc = "lookup"
  /\ LET r    == sv[p]
         url  == r.posts[r.idx]
         todo == CASE r.variant = "linkedin-scraper" ->
                        scrapeProfilePosts_check(store, url, lookupOk)
                   [] r.variant = "server" ->
                        saveResultsToAirtable_check(store, url, lookupOk)
                   [] r.variant = "part_001" ->
                        saveToAirtable_check(store, url, lookupOk)
         seen == [r EXCEPT !.failed = IF lookupOk THEN @ ELSE @ \cup {r.idx}]
     IN  sv' = [sv EXCEPT ![p] =
                  IF todo = "write" THEN [seen EXCEPT !.pc = "write"]
                  ELSE NextPost(seen)]
  /\ pClean' = [pClean EXCEPT ![p] = @ /\ lookupOk]
  /\ UNCHANGED <<store, pAdded>>

\* The create with its catch around the whole loop: a failed write ends the
\* call, the posts after it are never looked at.
WriteStep_AbortOnError(p, writeOk) ==
  /\ sv[p].pc = "write"
  /\ LET r   == sv[p]
         url == r.posts[r.idx]
         res == IF r.variant = "linkedin-scraper"
                THEN savePost(store, url, writeOk)            \* if (saved) newPostsCount++
                ELSE IF writeOk
                     THEN [store |-> Create(store, url), saved |-> TRUE]   \* saved.push(...)
                     ELSE [store |-> store, saved |-> FALSE]               \* catch (error)
     IN  /\ store'  = res.store
         /\ sv'     = [sv EXCEPT ![p] =
                         IF writeOk THEN NextPost([r EXCEPT !.saved = @ + 1])
                         ELSE [r EXCEPT !.pc = "done", !.failed = @ \cup {r.idx}]]
         /\ pAdded' = [pAdded EXCEPT ![p] =
                         IF res.store = store THEN @ ELSE Create(@, url)]
  /\ pClean' = [pClean EXCEPT ![p] = @ /\ writeOk]

\* The create for the current post, and the count of saved posts.
WriteStep(p, writeOk) ==
  /\ sv[p].pc = "write"
  /\ LET r   == sv[p]
         url == r.posts[r.idx]
         res == IF r.variant = "linkedin-scraper"
                THEN savePost(store, url, writeOk)            \* if (saved) newPostsCount++
                ELSE IF writeOk
                     THEN [store |-> Create(store, url), saved |-> TRUE]   \* saved.push(...)
                     ELSE [store |-> store, saved |-> FALSE]               \* catch (error)
     IN  /\ store'  = res.store
         /\ sv'     = [sv EXCEPT ![p] =
                         NextPost([r EXCEPT !.saved = IF res.saved THEN @ + 1 ELSE @,
                                            !.failed = IF writeOk THEN @
                                                       ELSE @ \cup {r.idx}])]
         /\ pAdded' = [pAdded EXCEPT ![p] =
                         IF res.store = store THEN @ ELSE Create(@, url)]
  /\ pClean' = [pClean EXCEPT ![p] = @ /\ writeOk]

\* The call returns its count.
EndCall(p) ==
  /\ sv[p].pc = "done"
  /\ sv'     = [sv EXCEPT ![p] = IdleSaver]
  /\ pAdded' = [pAdded EXCEPT ![p] = NoRecords]
  /\ pClean' = [pClean EXCEPT ![p] = TRUE]
  /\ UNCHANGED store

\* Runs one after the other: one persistence call at a time.
PersistStart ==
  \E v \in PersistVariants, posts \in PostLists :
    /\ Total(store) < MaxStoreRecords
    /\ BeginCall(1, v, posts)
    /\ UNCHANGED <<navVars, heurVars, tw, loginVars, runVars, fnVars>>

PersistLookup ==
  \E lookupOk \in BOOLEAN :
    LookupStep(1, lookupOk) /\ UNCHANGED <<navVars, heurVars, tw, loginVars, runVars, fnVars>>

PersistWrite ==
  \E writeOk \in BOOLEAN :
    WriteStep(1, writeOk) /\ UNCHANGED <<navVars, heurVars, tw, loginVars, runVars, fnVars>>

PersistReturn ==
  EndCall(1) /\ UNCHANGED <<navVars, heurVars, tw, loginVars, runVars, fnVars>>

\* Runs that overlap: the persistence calls of two runs, one call each, take
\* their steps in any order, each await (the select, the create) being a
\* point where the other call can go on.
OverlapStart ==
  \E p \in Savers, v \in PersistVariants, posts \in PostLists :
    /\ BeginCall(p, v, posts)
    /\ UNCHANGED <<navVars, heurVars, tw, loginVars, runVars, fnVars>>

OverlapLookup ==
  \E p \in Savers, lookupOk \in BOOLEAN :
    LookupStep(p, lookupOk) /\ UNCHANGED <<navVars, heurVars, tw, loginVars, runVars, fnVars>>

OverlapWrite ==
  \E p \in Savers, writeOk \in BOOLEAN :
    WriteStep(p, writeOk) /\ UNCHANGED <<navVars, heurVars, tw, loginVars, runVars, fnVars>>

\* The same list persisted twice in a row.
TwiceFirst ==
  \E v \in PersistVariants, posts \in PostLists :
    /\ tw.stage = 0
    /\ BeginCall(1, v, posts)
    /\ tw' = [tw EXCEPT !.stage = 1, !.posts = posts,
                        !.new1 = Cardinality({u \in Range(posts) : store[u] = 0}),
                        !.fresh1 = \A u \in Range(posts) : store[u] = 0]
    /\ UNCHANGED <<navVars, heurVars, loginVars, runVars, fnVars>>

TwiceRepeat ==
  /\ tw.stage = 1
  /\ sv[1].pc = "done"
  /\ sv' = [sv EXCEPT ![1] =
              [pc |-> IF Len(tw.posts) = 0 THEN "done" ELSE "lookup",
               variant |-> sv[1].variant, posts |-> tw.posts,
               idx |-> IF Len(tw.posts) = 0 THEN 0 ELSE 1, saved |-> 0,
               failed |-> {}]]
  /\ pAdded' = [pAdded EXCEPT ![1] = NoRecords]
  /\ pClean' = [pClean EXCEPT ![1] = TRUE]
  /\ tw' = [tw EXCEPT !.stage = 2, !.saved1 = sv[1].saved, !.clean1 = pClean[1]]
  /\ UNCHANGED <<store, navVars, heurVars, loginVars, runVars, fnVars>>

(***************************************************************************)
(* loginToLinkedIn                                                         *)
(*   src/linkedin-scraper.js:154-199, 247-409  loadCookies,                *)
(*        loginWithCookies, loginWithCredentials, loginToLinkedIn          *)
(*   src/unnamed/part_000:118-285              loginToLinkedIn,            *)
(*        loadCookies, saveCookies                                         *)
(* One action per stretch of code between two page operations; what the    *)
(* page does (a navigation's outcome, the page it lands on, a throw) is    *)
(* chosen by the environment.                                              *)
(***************************************************************************)
BaseUrl  == "https://www.linkedin.com"
FeedUrl  == "https://www.linkedin.com/feed/"
LoginUrl == "https://www.linkedin.com/login"

\* process.env.LINKEDIN_COOKIES: unset or empty, not JSON, JSON but no
\* array, an empty array, or a non-empty array of cookie entries.
CookieEnvs == {"absent", "badjson", "notarray", "emptyarray", "valid"}

LoginVariants == {"linkedin-scraper", "part_000"}

PageWith(S, url) ==
  [hasGlobalNav   |-> "hasGlobalNav" \in S,
   hasProfileIcon |-> "hasProfileIcon" \in S,
   hasFeedContent |-> "hasFeedContent" \in S,
   hasSearchBar   |-> "hasSearchBar" \in S,
   hasMessaging   |-> "hasMessaging" \in S,
   url            |-> url]

BlankPage == PageWith({}, "about:blank")

\* The pages a navigation or a form submit can land on.
LoginSignalSets == { {}, {"hasGlobalNav"}, {"hasSearchBar"},
                     {"hasGlobalNav", "hasFeedContent"},
                     {"hasSearchBar", "hasMessaging"} }
LoginPages == { PageWith(S, u) : S \in LoginSignalSets, u \in PageUrls }

Ev(kind, arg, ok) == [kind |-> kind, arg |-> arg, ok |-> ok]

\* What a call of safeGoto can return, over all the ways its attempts can go.
SafeGotoReturns == { safeGoto(outs).ok : outs \in GotoScripts }

\* What a direct page.goto can do: resolve (TRUE) or throw (FALSE).
RawGotoReturns == { o # "throw" : o \in GotoOutcomes }

\* What the browser context's cookie jar holds: nothing, what the site
\* set during a navigation, the supplied cookies alone, or both.  The
\* `jar` of a login or run is the jar as the last page.setCookie left it.
Jars == {"empty", "site", "supplied", "mixed"}

\* What the jar can hold once the base domain has been visited: the site
\* may have set cookies.
AfterVisit == {"empty", "site"}

\* page.setCookie(...cookies) adds to what the jar holds.
setCookie(jar) == IF jar = "empty" THEN "supplied" ELSE "mixed"

\* A page of the site, requested with the installed cookies, answers with
\* the site's own cookies beside them.
afterNavigation(jar) == IF jar = "supplied" THEN "mixed" ELSE jar

LoginIdle ==
  [pc |-> "idle", variant |-> "none", cookiesEnv |-> "absent", creds |-> FALSE,
   result |-> "none", jar |-> "empty"]

LoginQuiet ==
  /\ lg = LoginIdle
  /\ lgLog = <<>>
  /\ page = BlankPage

\* loginToLinkedIn(page) is called, under any configuration.
LoginInit ==
  /\ lg \in { [pc |-> "start", variant |-> v, cookiesEnv |-> c, creds |-> k,
               result |-> "none", jar |-> "empty"] :
              v \in LoginVariants, c \in CookieEnvs, k \in BOOLEAN }
  /\ lgLog = <<>>
  /\ page = BlankPage

Others == <<navVars, heurVars, persAll, runVars, fnVars>>

\* The function returns.
LoginReturn(r, log) ==
  /\ lg' = [lg EXCEPT !.pc = "done", !.result = r]
  /\ lgLog' = log

\* ------------------------------------------------------------------------
\* linkedin-scraper.js
\* ------------------------------------------------------------------------
\* The cookie tier has returned false: on to 'Estrategia 2'.
CookieTierFailed(log) ==
  /\ lg' = [lg EXCEPT !.pc = "cred_gate"]
  /\ lgLog' = Append(log, Ev("cookie-result", "", FALSE))

\* loginToLinkedIn:382-392: loginWithCookies only if cookies are configured.
LS_Start ==
  /\ lg.pc = "start" /\ lg.variant = "linkedin-scraper"
  /\ IF lg.cookiesEnv # "absent"
     THEN /\ lg' = [lg EXCEPT !.pc = "ck_load"]
          /\ lgLog' = Append(lgLog, Ev("cookie-attempt", "", TRUE))
     ELSE /\ lg' = [lg EXCEPT !.pc = "cred_gate"]
          /\ UNCHANGED lgLog
  /\ UNCHANGED <<page, Others>>

\* loadCookies:154-179: parse and validate, then safeGoto the base domain.
LS_LoadCookies ==
  /\ lg.pc = "ck_load"
  /\ IF lg.cookiesEnv # "valid"
     THEN CookieTierFailed(lgLog) /\ UNCHANGED page
     ELSE \E navigated \in SafeGotoReturns, pg \in LoginPages :
            LET log == Append(lgLog, Ev("safeGoto", BaseUrl, navigated))
            IN  IF navigated
                THEN /\ lg' = [lg EXCEPT !.pc = "ck_install"]
                     /\ lgLog' = log
                     /\ page' = pg
                ELSE CookieTierFailed(log) /\ UNCHANGED page
  /\ UNCHANGED Others

\* loadCookies:181-198: clear the context's cookies, install the supplied
\* ones; a throw of page.cookies, deleteCookie or setCookie is caught.
LS_InstallCookies ==
  /\ lg.pc = "ck_install"
  /\ \E before \in AfterVisit, outcome \in {"ok", "throw-cookies", "throw-set"} :
       LET existing == before # "empty"
           cleared  == IF existing
                       THEN Append(lgLog, Ev("deleteCookie", "", TRUE)) ELSE lgLog
       IN  CASE outcome = "ok" ->
                  /\ lg' = [lg EXCEPT !.pc = "ck_feed", !.jar = setCookie("empty")]
                  /\ lgLog' = Append(cleared, Ev("setCookie", "", TRUE))
             [] outcome = "throw-cookies" -> CookieTierFailed(lgLog)
             [] outcome = "throw-set" -> CookieTierFailed(cleared)
  /\ UNCHANGED <<page, Others>>

\* loginWithCookies:257-261: safeGoto the feed.
LS_Feed ==
  /\ lg.pc = "ck_feed"
  /\ \E navigated \in SafeGotoReturns, pg \in LoginPages :
       LET log == Append(lgLog, Ev("safeGoto", FeedUrl, navigated))
       IN  IF navigated
           THEN /\ lg' = [lg EXCEPT !.pc = "ck_check", !.jar = afterNavigation(lg.jar)]
                /\ lgLog' = log
                /\ page' = pg
           ELSE CookieTierFailed(log) /\ UNCHANGED page
  /\ UNCHANGED Others

\* The cookie check with its return dropped: a passing check goes on to the
\* credentials all the same.
LS_CookieCheck_FallsThrough ==
  /\ lg.pc = "ck_check"
  /\ \E evalOk \in BOOLEAN :
       /\ lg' = [lg EXCEPT !.pc = "cred_gate"]
       /\ lgLog' = Append(Append(lgLog,
                      Ev("check", "cookie", checkIfLoggedIn(page, evalOk))),
                      Ev("cookie-result", "", checkIfLoggedIn(page, evalOk)))
  /\ UNCHANGED <<page, Others>>

\* loginWithCookies:266-274: the heuristic decides the cookie tier.
LS_CookieCheck ==
  /\ lg.pc = "ck_check"
  /\ \E evalOk \in BOOLEAN :
       LET ok  == checkIfLoggedIn(page, evalOk)
           log == Append(lgLog, Ev("check", "cookie", ok))
       IN  IF ok
           THEN LoginReturn("ok", Append(log, Ev("cookie-result", "", TRUE)))
           ELSE CookieTierFailed(log)
  /\ UNCHANGED <<page, Others>>

\* loginToLinkedIn:394-403: loginWithCredentials only if both are configured.
LS_CredGate ==
  /\ lg.pc = "cred_gate"
  /\ IF lg.creds
     THEN /\ lg' = [lg EXCEPT !.pc = "cr_nav"]
          /\ lgLog' = Append(lgLog, Ev("credential-attempt", "", TRUE))
     ELSE LoginReturn("fail", lgLog)
  /\ UNCHANGED <<page, Others>>

\* loginWithCredentials:287-290: safeGoto the login page; failure is thrown
\* and caught at 376.
LS_CredNav ==
  /\ lg.pc = "cr_nav"
  /\ \E navigated \in SafeGotoReturns, pg \in LoginPages :
       LET log == Append(lgLog, Ev("safeGoto", LoginUrl, navigated))
       IN  IF navigated
           THEN /\ lg' = [lg EXCEPT !.pc = "cr_pre", !.jar = afterNavigation(lg.jar)]
                /\ lgLog' = log
                /\ page' = pg
           ELSE LoginReturn("fail", log) /\ UNCHANGED page
  /\ UNCHANGED Others

\* The form looked for before the heuristic is asked.
LS_CredPrecheck_FormFirst ==
  /\ lg.pc = "cr_pre"
  /\ \E evalOk \in BOOLEAN, form \in {"present", "absent", "throw"} :
       LET ok   == checkIfLoggedIn(page, evalOk)
           log  == Append(lgLog, Ev("form", "", form = "present"))
           log2 == Append(log, Ev("check", "already", ok))
       IN  IF ok
           THEN LoginReturn("ok", log2)
           ELSE IF form = "present"
                THEN /\ lg' = [lg EXCEPT !.pc = "cr_fill"]
                     /\ lgLog' = log2
                ELSE LoginReturn("fail", log2)
  /\ UNCHANGED <<page, Others>>

\* loginWithCredentials:295-309: already logged in? else is the form there?
LS_CredPrecheck ==
  /\ lg.pc = "cr_pre"
  /\ \E evalOk \in BOOLEAN, form \in {"present", "absent", "throw"} :
       LET ok  == checkIfLoggedIn(page, evalOk)
           log == Append(lgLog, Ev("check", "already", ok))
       IN  IF ok
           THEN LoginReturn("ok", log)
           ELSE IF form = "present"
                THEN /\ lg' = [lg EXCEPT !.pc = "cr_fill"]
                     /\ lgLog' = Append(log, Ev("form", "", TRUE))
                ELSE LoginReturn("fail", Append(log, Ev("form", "", FALSE)))
  /\ UNCHANGED <<page, Others>>

\* loginWithCredentials:314-342: type both fields, click submit, wait; any
\* page operation may throw, which ends the attempt at 376.
LS_CredFill ==
  /\ lg.pc = "cr_fill"
  /\ \E outcome \in {"ok", "throw-before-type", "throw-before-submit"},
        pg \in LoginPages :
       LET typed == Append(Append(lgLog, Ev("type", "identifier", TRUE)),
                           Ev("type", "secret", TRUE))
       IN  CASE outcome = "ok" ->
                  /\ lg' = [lg EXCEPT !.pc = "cr_classify"]
                  /\ lgLog' = Append(typed, Ev("submit", "", TRUE))
                  /\ page' = pg
             [] outcome = "throw-before-type" ->
                  LoginReturn("fail", lgLog) /\ UNCHANGED page
             [] outcome = "throw-before-submit" ->
                  LoginReturn("fail", typed) /\ UNCHANGED page
  /\ UNCHANGED Others

\* loginWithCredentials:344-374: classify the URL after the submit, then the
\* heuristic; on success the session's cookies are read and printed.
LS_CredClassify ==
  /\ lg.pc = "cr_classify"
  /\ \E evalOk \in BOOLEAN, cookiesOk \in BOOLEAN :
       IF Includes(page.url, "/checkpoint/challenge")
       THEN LoginReturn("fail", Append(lgLog, Ev("classified", "challenge", FALSE)))
       ELSE IF Includes(page.url, "/login")
       THEN LoginReturn("fail", Append(lgLog, Ev("classified", "login", FALSE)))
       ELSE
         LET ok  == checkIfLoggedIn(page, evalOk)
             log == Append(lgLog, Ev("check", "submitted", ok))
         IN  IF ~ok THEN LoginReturn("fail", log)
             ELSE IF cookiesOk
                  THEN LoginReturn("ok", Append(log, Ev("export-cookies", "", TRUE)))
                  ELSE LoginReturn("fail", log)      \* page.cookies() threw
  /\ UNCHANGED <<page, Others>>

\* ------------------------------------------------------------------------
\* unnamed/part_000
\* ------------------------------------------------------------------------
\* The cookie branch is over without a return: on to 'login tradicional'.
P0_CookieBranchFailed(log) ==
  /\ lg' = [lg EXCEPT !.pc = "p0_cred"]
  /\ lgLog' = Append(log, Ev("cookie-result", "", FALSE))

\* loginToLinkedIn:123 -> loadCookies:247-266: nothing configured, or parse
\* and validate, then page.goto the base domain.
P0_LoadCookies ==
  /\ lg.pc = "start" /\ lg.variant = "part_000"
  /\ IF lg.cookiesEnv = "absent"
     THEN /\ lg' = [lg EXCEPT !.pc = "p0_cred"]
          /\ UNCHANGED <<lgLog, page>>
     ELSE LET begun == Append(lgLog, Ev("cookie-attempt", "", TRUE))
          IN  IF lg.cookiesEnv # "valid"
              THEN P0_CookieBranchFailed(begun) /\ UNCHANGED page
              ELSE \E resolved \in RawGotoReturns, pg \in LoginPages :
                     LET log == Append(begun, Ev("goto", BaseUrl, resolved))
                     IN  IF resolved
                         THEN /\ lg' = [lg EXCEPT !.pc = "p0_set"]
                              /\ lgLog' = log
                              /\ page' = pg
                         ELSE P0_CookieBranchFailed(log) /\ UNCHANGED page
  /\ UNCHANGED Others

\* loadCookies:268-274: install the supplied cookies.
P0_SetCookie ==
  /\ lg.pc = "p0_set"
  /\ \E before \in AfterVisit, ok \in BOOLEAN :
       IF ok
       THEN /\ lg' = [lg EXCEPT !.pc = "p0_feed", !.jar = setCookie(before)]
            /\ lgLog' = Append(lgLog, Ev("setCookie", "", TRUE))
       ELSE P0_CookieBranchFailed(lgLog)
  /\ UNCHANGED <<page, Others>>

\* loginToLinkedIn:128-135: page.goto the feed; a throw is caught at 154.
P0_Feed ==
  /\ lg.pc = "p0_feed"
  /\ \E resolved \in RawGotoReturns, pg \in LoginPages :
       LET log == Append(lgLog, Ev("goto", FeedUrl, resolved))
       IN  IF resolved
           THEN /\ lg' = [lg EXCEPT !.pc = "p0_check", !.jar = afterNavigation(lg.jar)]
                /\ lgLog' = log
                /\ page' = pg
           ELSE P0_CookieBranchFailed(log) /\ UNCHANGED page
  /\ UNCHANGED Others

\* loginToLinkedIn:137-156: one of three signals and a feed or network URL.
P0_CookieCheck ==
  /\ lg.pc = "p0_check"
  /\ \E evalOk \in BOOLEAN :
       LET isLoggedIn == evalOk /\ (page.hasGlobalNav \/ page.hasProfileIcon
                                      \/ page.hasFeedContent)
           ok  == isLoggedIn /\ (Includes(page.url, "/feed")
                                   \/ Includes(page.url, "/mynetwork"))
           log == Append(lgLog, Ev("check", "cookie", ok))
       IN  IF ok
           THEN LoginReturn("ok", Append(log, Ev("cookie-result", "", TRUE)))
           ELSE P0_CookieBranchFailed(log)
  /\ UNCHANGED <<page, Others>>

\* loginToLinkedIn:159-167: page.goto the login page, whatever is
\* configured; a throw is caught at 241.
P0_CredNav ==
  /\ lg.pc = "p0_cred"
  /\ \E resolved \in RawGotoReturns, pg \in LoginPages :
       LET log == Append(Append(lgLog, Ev("credential-attempt", "", TRUE)),
                         Ev("goto", LoginUrl, resolved))
       IN  IF resolved
           THEN /\ lg' = [lg EXCEPT !.pc = "p0_form", !.jar = afterNavigation(lg.jar)]
                /\ lgLog' = log
                /\ page' = pg
           ELSE LoginReturn("fail", log) /\ UNCHANGED page
  /\ UNCHANGED Others

\* The credentials typed whether or not the identifier input was found.
P0_Form_TypesBlindly ==
  /\ lg.pc = "p0_form"
  /\ \E form \in {"present", "absent", "throw"} :
       /\ lg' = [lg EXCEPT !.pc = "p0_fill"]
       /\ lgLog' = Append(lgLog, Ev("form", "", form = "present"))
  /\ UNCHANGED <<page, Others>>

\* loginToLinkedIn:169-181: no form: logged in iff on the feed or network.
P0_Form ==
  /\ lg.pc = "p0_form"
  /\ \E form \in {"present", "absent", "throw"} :
       CASE form = "present" ->
              /\ lg' = [lg EXCEPT !.pc = "p0_fill"]
              /\ lgLog' = Append(lgLog, Ev("form", "", TRUE))
         [] form = "absent" ->
              LoginReturn(IF Includes(page.url, "/feed")
                             \/ Includes(page.url, "/mynetwork")
                          THEN "ok" ELSE "fail",
                          Append(lgLog, Ev("form", "", FALSE)))
         [] form = "throw" -> LoginReturn("fail", lgLog)
  /\ UNCHANGED <<page, Others>>

\* loginToLinkedIn:185-210: type both fields, click submit, wait.  With no
\* credentials configured page.type is handed undefined and throws.
P0_Fill ==
  /\ lg.pc = "p0_fill"
  /\ \E outcome \in {"ok", "throw-before-type", "throw-before-submit"},
        pg \in LoginPages :
       LET typed == Append(Append(lgLog, Ev("type", "identifier", TRUE)),
                           Ev("type", "secret", TRUE))
       IN  CASE outcome = "ok" /\ lg.creds ->
                  /\ lg' = [lg EXCEPT !.pc = "p0_classify"]
                  /\ lgLog' = Append(typed, Ev("submit", "", TRUE))
                  /\ page' = pg
             [] outcome = "throw-before-submit" /\ lg.creds ->
                  LoginReturn("fail", typed) /\ UNCHANGED page
             [] OTHER ->
                  LoginReturn("fail", lgLog) /\ UNCHANGED page
  /\ UNCHANGED Others

\* loginToLinkedIn:212-239: classify the URL after the submit.
P0_Classify ==
  /\ lg.pc = "p0_classify"
  /\ \E evalOk \in BOOLEAN, cookiesOk \in BOOLEAN :
       IF Includes(page.url, "/feed") \/ Includes(page.url, "/mynetwork")
       THEN LoginReturn("ok",
              IF cookiesOk                \* saveCookies:277-285 catches its own throw
              THEN Append(lgLog, Ev("export-cookies", "", TRUE)) ELSE lgLog)
       ELSE IF Includes(page.url, "/checkpoint/challenge")
       THEN LoginReturn("fail", Append(lgLog, Ev("classified", "challenge", FALSE)))
       ELSE IF Includes(page.url, "/login")
       THEN LoginReturn("fail", Append(lgLog, Ev("classified", "login", FALSE)))
       ELSE LET ok == evalOk /\ page.hasGlobalNav
            IN  LoginReturn(IF ok THEN "ok" ELSE "fail",
                            Append(lgLog, Ev("check", "submitted", ok)))
  /\ UNCHANGED <<page, Others>>

(***************************************************************************)
(* One run                                                                 *)
(*   src/linkedin-scraper.js:604-690  runScraper (the same function is at  *)
(*        src/unnamed/part_000:490-577, with its own loginToLinkedIn and   *)
(*        scrapeProfilePosts)                                              *)
(*   src/server.js:286-404, 491-571   scrapeMultipleUrls and its endpoints *)
(*   src/unnamed/part_001:76-235, 287-341  scrapeProfile and its endpoints *)
(* The dedup-and-persist step a run calls is the state machine above; in   *)
(* a run it is the event "persist", carrying whether posts were handed to  *)
(* it.                                                                     *)
(***************************************************************************)
MaxSources == 2

ScheduledVariants == {"linkedin-scraper", "part_000"}
ServerVariants    == {"server", "part_001"}

\* What detectUrlType makes of a requested entry; "missing" has no URL.
SourceKinds == {"profile", "company", "unknown", "missing"}

SourceLists(kinds) ==
  UNION { [1..n -> kinds] : n \in 0..MaxSources }

ActivityPage ==
  PageWith({"hasGlobalNav"}, "https://www.linkedin.com/in/jdoe/recent-activity/all/")

\* An event of the run; `via` is "none" but for a navigation.
Rv(kind, src, ok) == [kind |-> kind, src |-> src, ok |-> ok, via |-> "none"]

\* A navigation of the run, made by safeGoto or by a bare page.goto.
Nav(kind, src, ok, via) == [kind |-> kind, src |-> src, ok |-> ok, via |-> via]

\* scrapeProfilePosts navigates with safeGoto in linkedin-scraper.js:421 and
\* with page.goto in part_000:294.
SourceNavVia(variant) == IF variant = "linkedin-scraper" THEN "safeGoto" ELSE "page.goto"

\* server.js:11, part_001:11: process.env.API_SECRET.
API_SECRET == "s3cret"

\* Authorization headers a request may carry; "" is a request without one.
AuthHeaders ==
  { "", "Bearer s3cret", "Bearer wrong", "s3cret", "bearer s3cret", "Bearer s3cret " }

\* The check loosened to a search for the secret anywhere in the header.
authenticate_SecretAnywhere(authHeader) ==
  authHeader # "" /\ Includes(authHeader, API_SECRET)

\* authenticate, server.js:22-30 and part_001:21-29; TRUE is next().
authenticate(authHeader) ==
  ~(authHeader = "" \/ authHeader # "Bearer " \o API_SECRET)

\* The shape of the body's target field: absent; a list of URLs or of
\* {url} entries, bare or wrapped as [{'Profile URL': [...]}]; or a list of
\* entries of the form {'Profile URL': url} (the form server.js:340 reads).
BodyForms == {"absent", "list", "objects"}

\* server.js:510-516, 544-550: if urls[0]['Profile URL'] is set, urls becomes
\* that value, made a one-element list when it is not a list.
unwrapUrls(form, srcs) ==
  IF form = "objects" /\ Len(srcs) > 0 /\ srcs[1] # "missing"
  THEN <<srcs[1]>> ELSE srcs

\* A run as configured: `sources` is the list it goes through, `requested`
\* the number of sources it was asked for; `status` and `example` are the
\* HTTP status of the response and whether it carries an example payload.
RunConfig(v, e, c, k, srcs) ==
  [variant |-> v, entry |-> e, cookiesEnv |-> c, creds |-> k, sources |-> srcs,
   pc |-> "start", idx |-> 0, browser |-> "none", auth |-> "none",
   results |-> <<>>, success |-> "none",
   header |-> "Bearer " \o API_SECRET, form |-> "list", requested |-> Len(srcs),
   status |-> 0, example |-> FALSE, jar |-> "empty"]

\* The request as it arrives at an endpoint.
Request(v, e, c, srcs, h, f) ==
  [RunConfig(v, e, c, FALSE, srcs) EXCEPT !.header = h, !.form = f]

RunIdle == [RunConfig("none", "none", "absent", FALSE, <<>>) EXCEPT !.pc = "idle"]

RunQuiet ==
  /\ run = RunIdle
  /\ runLog = <<>>

\* A request to part_001's /api/scrape-batch, over a list of profiles.
BatchInit ==
  /\ run \in { RunConfig("part_001", "scrape-batch", c, FALSE, srcs) :
                c \in CookieEnvs, srcs \in SourceLists({"profile"}) }
  /\ runLog = <<>>
  /\ LoginQuiet

\* A run is started: by the scheduler over the Active profiles, or by a
\* request to one of the two endpoints.
RunInit ==
  /\ run \in
       { RunConfig(v, "cron", c, k, srcs) :
           v \in ScheduledVariants, c \in CookieEnvs, k \in BOOLEAN,
           srcs \in SourceLists({"profile"}) }
       \cup
       { Request("server", e, c, srcs, h, f) :
           e \in {"scrape", "scrape-and-save"}, c \in CookieEnvs,
           srcs \in SourceLists(SourceKinds), h \in AuthHeaders,
           f \in {"list", "objects"} }
       \cup
       { Request(v, e, c, <<>>, h, "absent") :
           v \in ServerVariants, e \in {"scrape", "scrape-and-save"},
           c \in CookieEnvs, h \in AuthHeaders }
       \cup
       { Request("part_001", e, c, <<"profile">>, h, "list") :
           e \in {"scrape", "scrape-and-save"}, c \in CookieEnvs,
           h \in AuthHeaders }
  /\ runLog = <<>>
  /\ LoginQuiet

Rest == <<navVars, heurVars, persAll, fnVars>>

NumSources == Len(run.sources)

RunStep(pc, log) ==
  /\ run' = [run EXCEPT !.pc = pc]
  /\ runLog' = log

\* ------------------------------------------------------------------------
\* runScraper
\* ------------------------------------------------------------------------
\* runScraper:609-632: no profiles: return; else launch the browser (a
\* throw of launch leaves no browser to close).
RS_GetProfiles ==
  /\ run.pc = "start" /\ run.variant \in ScheduledVariants
  /\ IF NumSources = 0
     THEN /\ run' = [run EXCEPT !.pc = "done", !.success = "no-sources"]
          /\ UNCHANGED runLog
     ELSE \E launched \in BOOLEAN :
            IF launched
            THEN /\ run' = [run EXCEPT !.pc = "setup", !.browser = "open"]
                 /\ runLog' = Append(runLog, Rv("launch", 0, TRUE))
            ELSE /\ run' = [run EXCEPT !.pc = "finally", !.success = "error"]
                 /\ UNCHANGED runLog
  /\ UNCHANGED <<loginVars, Rest>>

\* runScraper:634-647: the page is created and configured; a throw goes to
\* the catch at 681.
RS_Setup ==
  /\ run.pc = "setup" /\ run.variant \in ScheduledVariants
  /\ \E ok \in BOOLEAN :
       IF ok
       THEN RunStep("login", Append(runLog, Rv("newPage", 0, TRUE)))
       ELSE /\ run' = [run EXCEPT !.pc = "finally", !.success = "error"]
            /\ UNCHANGED runLog
  /\ UNCHANGED <<loginVars, Rest>>

\* runScraper:649: loginToLinkedIn(page) is called.
RS_Login ==
  /\ run.pc = "login"
  /\ RunStep("in-login", Append(runLog, Rv("login", 0, TRUE)))
  /\ lg' = [pc |-> "start", variant |-> run.variant,
            cookiesEnv |-> run.cookiesEnv, creds |-> run.creds,
            result |-> "none", jar |-> "empty"]
  /\ lgLog' = <<>>
  /\ page' = BlankPage
  /\ UNCHANGED Rest

\* The return of loginToLinkedIn with the throw at 651-653 left out.
RS_LoginReturned_NoAbort ==
  /\ run.pc = "in-login" /\ lg.pc = "done"
  /\ run' = [run EXCEPT !.pc = "loop",
                        !.auth = IF lg.result = "ok" THEN "ok" ELSE "fail"]
  /\ UNCHANGED <<runLog, loginVars, Rest>>

\* runScraper:649-655: loginToLinkedIn has returned; failure is thrown to
\* the catch at 681.
RS_LoginReturned ==
  /\ run.pc = "in-login" /\ lg.pc = "done"
  /\ IF lg.result = "ok"
     THEN run' = [run EXCEPT !.pc = "loop", !.auth = "ok"]
     ELSE run' = [run EXCEPT !.pc = "finally", !.auth = "fail", !.success = "error"]
  /\ UNCHANGED <<runLog, loginVars, Rest>>

\* What happens on the source's page once it is loaded: the extraction
\* throws, or yields no post, or yields posts.
ExtractOutcomes == {"throw", "none", "some"}

\* What the dedup-and-persist loop of scrapeProfilePosts:566-590 makes of
\* the extracted posts: it writes new records, or finds every post stored,
\* or its store calls fail (postExists and savePost catch that).
PersistOutcomes == {"new", "nothing-new", "store-error"}

\* scrapeProfilePosts:427-599 after the navigation.
AfterSourceNav(log, src, ex, st) ==
  CASE ex = "throw" -> Append(log, Rv("extract", src, FALSE))
    [] ex = "none"  -> Append(Append(log, Rv("extract", src, TRUE)),
                              Rv("persist", src, FALSE))
    [] ex = "some"  ->
         LET persisted == Append(Append(log, Rv("extract", src, TRUE)),
                                 Rv("persist", src, TRUE))
         IN  IF st = "store-error"
             THEN Append(persisted, Rv("store-error", src, FALSE))
             ELSE persisted

\* What scrapeProfilePosts returns: newPostsCount, which is 0 at 424 (no
\* navigation), at 597 (a throw) and at 593 when nothing was written.
ProfileReturn(navigated, ex, st) ==
  IF navigated /\ ex = "some" /\ st = "new" THEN "new" ELSE "zero"

\* runScraper:668-671 and scrapeMultipleUrls:374-378: the delay between
\* sources, not after the last one.
WithDelay(log, src) ==
  IF src < NumSources THEN Append(log, Rv("delay", src, TRUE)) ELSE log

\* The loop with a break at the first profile that could not be read.
RS_ScrapeProfile_StopsAtFailure ==
  /\ run.pc = "loop" /\ run.variant \in ScheduledVariants
  /\ run.idx < NumSources
  /\ \E navigated \in (IF run.variant = "linkedin-scraper"
                         THEN SafeGotoReturns ELSE RawGotoReturns),
        ex \in ExtractOutcomes, st \in PersistOutcomes :
       LET src == run.idx + 1
           nav == Append(runLog, Nav("source-nav", src, navigated,
                                     SourceNavVia(run.variant)))
           log == IF navigated THEN AfterSourceNav(nav, src, ex, st) ELSE nav
       IN  /\ run' = [run EXCEPT !.idx = src,
                         !.pc = IF navigated /\ ex # "throw"
                                THEN "loop" ELSE "finally",
                         !.results = Append(@, ProfileReturn(navigated, ex, st))]
           /\ runLog' = WithDelay(log, src)
           /\ page' = IF navigated THEN ActivityPage ELSE page
  /\ UNCHANGED <<lg, lgLog, Rest>>

\* runScraper:657-677 -> scrapeProfilePosts:415-599 for the next profile.
\* linkedin-scraper.js navigates with safeGoto, part_000:294 with page.goto.
RS_ScrapeProfile ==
  /\ run.pc = "loop" /\ run.variant \in ScheduledVariants
  /\ run.idx < NumSources
  /\ \E navigated \in (IF run.variant = "linkedin-scraper"
                         THEN SafeGotoReturns ELSE RawGotoReturns),
        ex \in ExtractOutcomes, st \in PersistOutcomes :
       LET src == run.idx + 1
           nav == Append(runLog, Nav("source-nav", src, navigated,
                                     SourceNavVia(run.variant)))
           log == IF navigated THEN AfterSourceNav(nav, src, ex, st) ELSE nav
       IN  /\ run' = [run EXCEPT !.idx = src,
                         !.results = Append(@, ProfileReturn(navigated, ex, st))]
           /\ runLog' = WithDelay(log, src)
           /\ page' = IF navigated THEN ActivityPage ELSE page
  /\ UNCHANGED <<lg, lgLog, Rest>>

\* runScraper:679: every profile has been handled.
RS_Completed ==
  /\ run.pc = "loop" /\ run.variant \in ScheduledVariants
  /\ run.idx = NumSources
  /\ run' = [run EXCEPT !.pc = "finally", !.success = "completed"]
  /\ UNCHANGED <<runLog, loginVars, Rest>>

\* The close placed at the end of the try block and not in a finally: a
\* run that threw does not reach it.
RS_Finally_CloseOnlyOnCompletion ==
  /\ run.pc = "finally" /\ run.variant \in ScheduledVariants
  /\ IF run.browser = "open" /\ run.success = "completed"
     THEN /\ run' = [run EXCEPT !.pc = "done", !.browser = "closed"]
          /\ runLog' = Append(runLog, Rv("close", 0, TRUE))
     ELSE /\ run' = [run EXCEPT !.pc = "done"]
          /\ UNCHANGED runLog
  /\ UNCHANGED <<loginVars, Rest>>

\* runScraper:684-689: the browser, if one was launched, is closed.
RS_Finally ==
  /\ run.pc = "finally" /\ run.variant \in ScheduledVariants
  /\ IF run.browser = "open"
     THEN /\ run' = [run EXCEPT !.pc = "done", !.browser = "closed"]
          /\ runLog' = Append(runLog, Rv("close", 0, TRUE))
     ELSE /\ run' = [run EXCEPT !.pc = "done"]
          /\ UNCHANGED runLog
  /\ UNCHANGED <<loginVars, Rest>>

\* ------------------------------------------------------------------------
\* scrapeMultipleUrls / scrapeProfile and the endpoints that call them
\* ------------------------------------------------------------------------
\* The response that ends a request before any run is started.
Reject(status, example) ==
  /\ run' = [run EXCEPT !.pc = "done", !.success = "rejected",
                        !.status = status, !.example = example]
  /\ runLog' = Append(runLog, Rv("respond", 0, FALSE))

\* authenticate, then server.js:491-524, 535-554; part_001:287-302, 313-323,
\* 344-352: 401 without the bearer secret; 400 without the target field
\* (with an example payload from server.js's /api/scrape only); the list is
\* unwrapped; server.js's /api/scrape and part_001's /api/scrape-batch answer
\* 400 to an empty list, /api/scrape-and-save does not.
SV_Request ==
  /\ run.pc = "start" /\ run.variant \in ServerVariants
  /\ LET urls == IF run.variant = "server"
                 THEN unwrapUrls(run.form, run.sources) ELSE run.sources
     IN  IF ~authenticate(run.header) THEN Reject(401, FALSE)
         ELSE IF run.form = "absent"
         THEN Reject(400, run.variant = "server" /\ run.entry = "scrape")
         ELSE IF /\ Len(urls) = 0
                 /\ \/ run.variant = "server" /\ run.entry = "scrape"
                    \/ run.entry = "scrape-batch"
         THEN Reject(400, FALSE)
         ELSE /\ run' = [run EXCEPT !.pc = "launch", !.sources = urls]
              /\ UNCHANGED runLog
  /\ UNCHANGED <<loginVars, Rest>>

\* scrapeMultipleUrls:292-309; scrapeProfile:82-99: launch the browser,
\* create and configure the page; a throw goes to the catch at 391 / 224.
SV_Launch ==
  /\ run.pc = "launch"
  /\ \E outcome \in {"ok", "launch-throws", "setup-throws"} :
       LET launched == Append(runLog, Rv("launch", 0, TRUE))
       IN  CASE outcome = "ok" ->
                  /\ run' = [run EXCEPT !.pc = "sv_cookies", !.browser = "open",
                                        !.jar = "empty"]
                  /\ runLog' = Append(launched, Rv("newPage", 0, TRUE))
             [] outcome = "launch-throws" ->
                  /\ run' = [run EXCEPT !.pc = "finally", !.success = "error"]
                  /\ UNCHANGED runLog
             [] outcome = "setup-throws" ->
                  /\ run' = [run EXCEPT !.pc = "finally", !.browser = "open",
                                        !.success = "error"]
                  /\ runLog' = launched
  /\ UNCHANGED <<loginVars, Rest>>

\* The run's authentication has failed: the throw at 315 / 327 (104 / 116),
\* or a throw of page.goto at 318 (107), caught at 391 (224).
SV_AuthFailed(log) ==
  /\ run' = [run EXCEPT !.pc = "finally", !.auth = "fail", !.success = "error"]
  /\ runLog' = log

\* Where a fresh browser, with no cookie installed yet, lands when it asks
\* for the base domain.
HomePages == { pg \in LoginPages : pg.url = "https://www.linkedin.com/" }

\* scrapeMultipleUrls:313-316 -> loadCookies:87-102 (part_001:102-105 ->
\* 40-55): parse, page.goto the base domain, setCookie(...cookies).  There
\* is no array check: a non-array makes the spread throw after the
\* navigation, an empty array is installed as it is.
SV_LoadCookies ==
  /\ run.pc = "sv_cookies"
  /\ IF run.cookiesEnv \in {"absent", "badjson"}
     THEN SV_AuthFailed(runLog) /\ UNCHANGED page
     ELSE \E resolved \in RawGotoReturns, pg \in HomePages, setOk \in BOOLEAN :
            LET log == Append(runLog, Nav("auth-nav", 0, resolved, "page.goto"))
            IN  IF ~resolved
                THEN SV_AuthFailed(log) /\ UNCHANGED page
                ELSE /\ page' = pg
                     /\ IF run.cookiesEnv = "notarray" \/ ~setOk
                        THEN SV_AuthFailed(log)
                        ELSE \E before \in AfterVisit :
                               /\ run' = [run EXCEPT !.pc = "sv_feed",
                                                     !.jar = setCookie(before)]
                               /\ runLog' = Append(log, Rv("setCookie", 0, TRUE))
  /\ UNCHANGED <<lg, lgLog, Rest>>

\* scrapeMultipleUrls:318-323; scrapeProfile:107-112: page.goto the feed.
SV_Feed ==
  /\ run.pc = "sv_feed"
  /\ \E resolved \in RawGotoReturns, pg \in LoginPages :
       LET log == Append(runLog, Nav("auth-nav", 0, resolved, "page.goto"))
       IN  IF resolved
           THEN /\ run' = [run EXCEPT !.pc = "sv_check", !.jar = afterNavigation(run.jar)]
                /\ runLog' = log
                /\ page' = pg
           ELSE SV_AuthFailed(log) /\ UNCHANGED page
  /\ UNCHANGED <<lg, lgLog, Rest>>

\* scrapeMultipleUrls:325-330; scrapeProfile:114-119: the heuristic decides.
SV_Check ==
  /\ run.pc = "sv_check"
  /\ \E evalOk \in BOOLEAN :
       IF (IF run.variant = "server" THEN checkIfLoggedIn_server(page, evalOk)
                                     ELSE checkIfLoggedIn_part001(page, evalOk))
       THEN run' = [run EXCEPT !.pc = "loop", !.auth = "ok"] /\ UNCHANGED runLog
       ELSE SV_AuthFailed(runLog)
  /\ UNCHANGED <<loginVars, Rest>>

\* scrapeMultipleUrls:335-379 -> scrapeUrlInSession:235-283 for the next
\* entry: one without a URL or of unknown type is recorded and skipped (no
\* delay); a throw while scraping is that entry's failure.
SV_ScrapeUrl ==
  /\ run.pc = "loop" /\ run.variant = "server"
  /\ run.idx < NumSources
  /\ LET src == run.idx + 1
     IN  IF run.sources[src] \in {"missing", "unknown"}
         THEN /\ run' = [run EXCEPT !.idx = src, !.results = Append(@, "invalid")]
              /\ UNCHANGED <<runLog, page>>
         ELSE \E resolved \in RawGotoReturns, ex \in ExtractOutcomes :
                LET navigated == resolved
                    nav == Append(runLog, Nav("source-nav", src, navigated, "page.goto"))
                    log == IF ~navigated THEN nav
                           ELSE Append(nav, Rv("extract", src, ex # "throw"))
                IN  /\ run' = [run EXCEPT !.idx = src,
                                  !.results = Append(@, IF navigated /\ ex # "throw"
                                                        THEN ex ELSE "failed")]
                    /\ runLog' = WithDelay(log, src)
                    /\ page' = IF navigated THEN ActivityPage ELSE page
  /\ UNCHANGED <<lg, lgLog, Rest>>

\* scrapeMultipleUrls:383-389: the summary returned with the results.
totalUrls == Len(run.sources)

successfulUrls ==
  Cardinality({ j \in 1..Len(run.results) : run.results[j] \in {"none", "some"} })

failedUrls ==
  Cardinality({ j \in 1..Len(run.results) : run.results[j] \in {"failed", "invalid"} })

\* scrapeMultipleUrls:381-389: every entry has been handled.
SV_Return ==
  /\ run.pc = "loop" /\ run.variant = "server"
  /\ run.idx = NumSources
  /\ run' = [run EXCEPT !.pc = "finally", !.success = "true"]
  /\ UNCHANGED <<runLog, loginVars, Rest>>

\* scrapeProfile:121-229: the one profile; any throw is the call's failure.
\* Called from /api/scrape-batch it is the batch's next profile.
P1_ScrapeProfile ==
  /\ run.pc = "loop" /\ run.variant = "part_001"
  /\ \E resolved \in RawGotoReturns, ex \in ExtractOutcomes :
       LET navigated == resolved
           batch == run.entry = "scrape-batch"
           src == IF batch THEN run.idx + 1 ELSE 1
           idx == IF batch THEN run.idx ELSE 1
           nav == Append(runLog, Nav("source-nav", src, navigated, "page.goto"))
       IN  IF navigated /\ ex # "throw"
           THEN /\ run' = [run EXCEPT !.pc = "finally", !.idx = idx,
                                      !.results = Append(@, ex),
                                      !.success = "true"]
                /\ runLog' = Append(nav, Rv("extract", src, TRUE))
                /\ page' = ActivityPage
           ELSE /\ run' = [run EXCEPT !.pc = "finally", !.idx = idx,
                                      !.success = "error"]
                /\ runLog' = IF navigated
                             THEN Append(nav, Rv("extract", src, FALSE)) ELSE nav
                /\ page' = IF navigated THEN ActivityPage ELSE page
  /\ UNCHANGED <<lg, lgLog, Rest>>

\* part_001 /api/scrape-batch:356-365: scrapeProfile has returned; its
\* result is pushed, then delay(30000), after every profile; the next
\* profile gets a scrapeProfile call, and so a browser, of its own.
P1_BatchDelay ==
  /\ run.pc = "respond" /\ run.entry = "scrape-batch"
  /\ LET src == run.idx + 1
         results == IF run.success = "true" THEN run.results
                    ELSE Append(run.results, "failed")
     IN  /\ runLog' = Append(runLog, Rv("delay", src, TRUE))
         /\ run' = IF src < NumSources
                   THEN [run EXCEPT !.pc = "launch", !.idx = src,
                                    !.results = results, !.browser = "none",
                                    !.auth = "none", !.success = "none"]
                   ELSE [run EXCEPT !.pc = "batch-respond", !.idx = src,
                                    !.results = results]
  /\ UNCHANGED <<loginVars, Rest>>

\* part_001 /api/scrape-batch:367-371: the batch responds.
P1_BatchRespond ==
  /\ run.pc = "batch-respond"
  /\ run' = [run EXCEPT !.pc = "done", !.success = "true", !.status = 200]
  /\ runLog' = Append(runLog, Rv("respond", 0, TRUE))
  /\ UNCHANGED <<loginVars, Rest>>

\* scrapeMultipleUrls:398-403; scrapeProfile:230-234: close the browser.
SV_Finally ==
  /\ run.pc = "finally" /\ run.variant \in ServerVariants
  /\ IF run.browser = "open"
     THEN /\ run' = [run EXCEPT !.pc = "respond", !.browser = "closed"]
          /\ runLog' = Append(runLog, Rv("close", 0, TRUE))
     ELSE RunStep("respond", runLog)
  /\ UNCHANGED <<loginVars, Rest>>

\* saveResultsToAirtable:414-471: an entry with no posts is skipped, the
\* posts of the others go through the dedup-and-persist loop; a store call
\* that throws is caught per post (460-462) and the loop goes on.  errs are
\* the entries whose store calls fail.
RECURSIVE PersistResults(_, _, _, _)
PersistResults(log, results, i, errs) ==
  IF i > Len(results) THEN log
  ELSE LET persisted == Append(log, Rv("persist", i, TRUE))
       IN  PersistResults(
             IF results[i] # "some" THEN log
             ELSE IF i \in errs
                  THEN Append(persisted, Rv("store-error", i, FALSE))
                  ELSE persisted,
             results, i + 1, errs)

\* The entries of the results that carry posts.
WithPosts(results) == { i \in 1..Len(results) : results[i] = "some" }

\* server.js:524-526, 554-565; part_001:302-304, 323-335: respond; the
\* saving endpoint persists only what a successful scrape returned
\* (part_001's saveToAirtable:238-275 is called with the one profile's
\* posts, none included).
SV_Respond ==
  /\ run.pc = "respond" /\ run.entry \in {"scrape", "scrape-and-save"}
  /\ IF run.entry = "scrape-and-save" /\ run.success = "true"
     THEN \E errs \in SUBSET WithPosts(run.results) :
            LET saved ==
                  IF run.variant = "server"
                  THEN PersistResults(runLog, run.results, 1, errs)
                  ELSE PersistResults(
                         IF run.results[1] = "some" THEN runLog
                         ELSE Append(runLog, Rv("persist", 1, FALSE)),
                         run.results, 1, errs)
            IN  /\ run' = [run EXCEPT !.pc = "done", !.status = 200]
                /\ runLog' = Append(saved, Rv("respond", 0, TRUE))
     ELSE /\ run' = [run EXCEPT !.pc = "done",
                        !.status = IF run.entry = "scrape" \/ run.success = "true"
                                   THEN 200 ELSE 500]
          /\ runLog' = Append(runLog, Rv("respond", 0, run.success = "true"))
  /\ UNCHANGED <<loginVars, Rest>>

(***************************************************************************)
(* Extraction                                                              *)
(*   src/linkedin-scraper.js:449-562  the page.evaluate of                 *)
(*        scrapeProfilePosts (the same loop is at part_000:334-447)        *)
(*   src/server.js:123-232            extractPosts (and part_001:140-213)  *)
(* The page is the list of post elements the first matching selector       *)
(* found; of each element the model keeps what the loop reads from it.     *)
(***************************************************************************)
MaxElements == 2
MaxCap == 3

CONTENT_LIMIT == 1000

RECURSIVE Rep(_, _)
Rep(s, n) == IF n = 0 THEN "" ELSE s \o Rep(s, n - 1)

\* String.prototype.trim, for the blanks the texts below carry.
RECURSIVE TrimLeft(_)
TrimLeft(s) ==
  IF Len(s) > 0 /\ SubSeq(s, 1, 1) = " " THEN TrimLeft(SubSeq(s, 2, Len(s))) ELSE s

RECURSIVE TrimRight(_)
TrimRight(s) ==
  IF Len(s) > 0 /\ SubSeq(s, Len(s), Len(s)) = " "
  THEN TrimRight(SubSeq(s, 1, Len(s) - 1)) ELSE s

Trim(s) == TrimRight(TrimLeft(s))

\* String.prototype.substring(0, n)
Substring0(s, n) == SubSeq(s, 1, IF Len(s) < n THEN Len(s) ELSE n)

ShortText == "  Hi all  "
GoodText  == " A post with more than ten characters "
LongText  == Rep("0123456789", 100) \o "!"        \* 1001 characters

PostHref == "https://www.linkedin.com/posts/jdoe_activity-7"
PostUrn  == "urn:li:activity:7"

\* A post element: the innerTexts of its content nodes in selector order,
\* its anchor (none, one matched only by data-control-name and without
\* href, or one with a post href), its data-urn, and whether reading it
\* throws inside the per-post try.
Element(texts, anchor, urn, throws) ==
  [texts |-> texts, anchor |-> anchor, urn |-> urn, throws |-> throws,
   time |-> "datetime"]

\* The element's <time>: with a datetime attribute (as in Element), without
\* the attribute but with a text, without attribute and text, or no <time>
\* at all.
TimeKinds == {"datetime", "text", "bare", "none"}

WithTime(e, time) == [e EXCEPT !.time = time]

DatetimeAttr == "2025-12-24T10:00:00.000Z"
TimeText     == "2d"
CrawlTime    == "2026-01-02T08:00:00.000Z"

\* A value of `date`: a string, or null.
DateString(str) == [isNull |-> FALSE, str |-> str]
DateNull        == [isNull |-> TRUE, str |-> ""]

PostElements ==
  { Element(<<GoodText>>, "href", "", FALSE),
    Element(<<GoodText>>, "none", PostUrn, FALSE),
    Element(<<GoodText>>, "none", "", FALSE),
    Element(<<GoodText>>, "nohref", PostUrn, FALSE),
    Element(<<ShortText, GoodText>>, "href", PostUrn, FALSE),
    Element(<<ShortText>>, "href", "", FALSE),
    Element(<<>>, "href", PostUrn, FALSE),
    Element(<<LongText>>, "href", "", FALSE),
    Element(<<GoodText>>, "href", "", TRUE),
    WithTime(Element(<<GoodText>>, "href", "", FALSE), "text"),
    WithTime(Element(<<GoodText>>, "href", "", FALSE), "bare"),
    WithTime(Element(<<GoodText>>, "href", "", FALSE), "none") }

ElementLists == UNION { [1..n -> PostElements] : n \in 0..MaxElements }

Caps == 0..MaxCap

ExtractVariants == {"linkedin-scraper", "server"}

\* The content loop (linkedin-scraper.js:488-497, server.js:157-166): the
\* trimmed text of the first node whose trimmed text is over 10 characters.
RECURSIVE contentOf(_, _)
contentOf(texts, k) ==
  IF k > Len(texts) THEN ""
  ELSE IF Len(Trim(texts[k])) > 10 THEN Trim(texts[k])
  ELSE contentOf(texts, k + 1)

\* linkedin-scraper.js:502-516: the anchor's href if any anchor matched,
\* else the URL built from the urn.  server.js:171-181: its selectors need
\* an href; the urn is tried whenever that gave nothing.
postUrlOf(variant, e) ==
  LET fromUrn == IF e.urn # "" THEN "https://www.linkedin.com/feed/update/" \o e.urn
                 ELSE ""
  IN  IF variant = "linkedin-scraper"
      THEN CASE e.anchor = "href"   -> PostHref
             [] e.anchor = "nohref" -> ""
             [] OTHER               -> fromUrn
      ELSE IF e.anchor = "href" THEN PostHref ELSE fromUrn

\* server.js:168-169: timeEl ? timeEl.getAttribute('datetime') : now, and
\* getAttribute of a missing attribute is null.  linkedin-scraper.js:499-500:
\* timeElement ? (getAttribute('datetime') || innerText) : now.
dateOf(variant, e) ==
  CASE e.time = "none"     -> DateString(CrawlTime)
    [] e.time = "datetime" -> DateString(DatetimeAttr)
    [] OTHER ->
         IF variant = "server" THEN DateNull
         ELSE DateString(IF e.time = "text" THEN TimeText ELSE "")

\* What is pushed for the element (server.js:215-223 cuts the content,
\* linkedin-scraper.js:545-554 does not).
itemOf(variant, e) ==
  [content |-> IF variant = "server"
               THEN Substring0(contentOf(e.texts, 1), CONTENT_LIMIT)
               ELSE contentOf(e.texts, 1),
   postUrl |-> postUrlOf(variant, e),
   date    |-> dateOf(variant, e)]

\* The loop with `break` where the source has `continue`: the first element
\* skipped ends it.
RECURSIVE extractLoop_StopsAtSkipped(_, _, _, _, _)
extractLoop_StopsAtSkipped(variant, elems, i, n, results) ==
  IF ~(i < n) THEN results
  ELSE LET e == elems[i + 1]
       IN  IF e.throws \/ contentOf(e.texts, 1) = "" \/ postUrlOf(variant, e) = ""
           THEN results
           ELSE extractLoop_StopsAtSkipped(variant, elems, i + 1, n,
                                           Append(results, itemOf(variant, e)))

\* for (let i = 0; i < n; i++): a throw, no content or no URL skips the
\* element.
RECURSIVE extractLoop(_, _, _, _, _)
extractLoop(variant, elems, i, n, results) ==
  IF ~(i < n) THEN results
  ELSE LET e == elems[i + 1]
       IN  IF e.throws \/ contentOf(e.texts, 1) = "" \/ postUrlOf(variant, e) = ""
           THEN extractLoop(variant, elems, i + 1, n, results)
           ELSE extractLoop(variant, elems, i + 1, n,
                            Append(results, itemOf(variant, e)))

Min(a, b) == IF a < b THEN a ELSE b

\* The loop run over every element found, whatever the cap.
extractPosts_IgnoresCap(variant, elems, maxPosts) ==
  extractLoop(variant, elems, 0, Len(elems), <<>>)

\* i < Math.min(postElements.length, maxPosts)
extractPosts(variant, elems, maxPosts) ==
  extractLoop(variant, elems, 0, Min(Len(elems), maxPosts), <<>>)

ExtractQuiet ==
  /\ exVariant = "none"
  /\ exElems = <<>>
  /\ exCap = 0
  /\ exOut = <<>>

\* The page and the cap an extraction is about to be given.
ExtractInit ==
  /\ exVariant = "none"
  /\ exElems \in ElementLists
  /\ exCap \in Caps
  /\ exOut = <<>>

\* The extraction of one of the variants is run on the page.
ExtractCall ==
  /\ exVariant = "none"
  /\ \E v \in ExtractVariants :
       /\ exVariant' = v
       /\ exOut' = extractPosts(v, exElems, exCap)
  /\ UNCHANGED <<exElems, exCap, nuVars, pxVars, cxVars, dsVars,
                 navVars, heurVars, persAll, loginVars, runVars>>

(***************************************************************************)
(* The activity URL of a source                                            *)
(*   src/server.js:41-69          detectUrlType, normalizeUrl              *)
(*   src/linkedin-scraper.js:419  scrapeProfilePosts (also part_000:292,   *)
(*                                part_001:121)                            *)
(***************************************************************************)
MaxNormalizations == 2

Host == "https://www.linkedin.com"

\* Source URLs as they come in a request or from the 'Profile URL' field:
\* a person, an organization or another path, bare or already carrying an
\* activity path, with or without a trailing slash and surrounding blanks.
SourceUrls ==
  { pad \o Host \o kind \o "mckinsey" \o tail \o slash \o pad :
      pad \in {"", " "},
      kind \in {"/in/", "/company/", "/school/"},
      tail \in {"", "/recent-activity/all", "/posts", "/about"},
      slash \in {"", "/"} }

UrlVariants == {"server", "linkedin-scraper"}

EndsWith(s, p) == Len(s) >= Len(p) /\ SubSeq(s, Len(s) - Len(p) + 1, Len(s)) = p

\* url.replace(/\/$/, '')
StripTrailingSlash(s) == IF EndsWith(s, "/") THEN SubSeq(s, 1, Len(s) - 1) ELSE s

detectUrlType(url) ==
  IF Includes(url, "/in/") THEN "profile"
  ELSE IF Includes(url, "/company/") THEN "company"
  ELSE "unknown"

normalizeUrl(url0) ==
  LET url  == StripTrailingSlash(Trim(url0))
      type == detectUrlType(url)
  IN  IF type = "profile"
      THEN IF ~Includes(url, "/recent-activity/")
           THEN url \o "/recent-activity/all/" ELSE url
      ELSE IF type = "company"
      THEN IF ~Includes(url, "/posts/") THEN url \o "/posts/" ELSE url
      ELSE url

\* `${profileUrl}/recent-activity/all/` of the scheduled scraper.
activityUrl(profileUrl) == profileUrl \o "/recent-activity/all/"

ActivityUrlOf(variant, url) ==
  IF variant = "server" THEN normalizeUrl(url) ELSE activityUrl(url)

UrlQuiet ==
  /\ nuVariant = "none"
  /\ nuUrl = ""
  /\ nuOut = <<>>

UrlInit ==
  /\ nuVariant = "none"
  /\ nuUrl \in SourceUrls
  /\ nuOut = <<>>

\* The activity URL of the source is built by one of the variants.
NormalizeCall ==
  /\ nuVariant = "none"
  /\ \E v \in UrlVariants :
       /\ nuVariant' = v
       /\ nuOut' = <<ActivityUrlOf(v, nuUrl)>>
  /\ UNCHANGED <<nuUrl, exVars, pxVars, cxVars, dsVars,
                 navVars, heurVars, persAll, loginVars, runVars>>

\* The URL that came out is given as a source URL again.
NormalizeAgain ==
  /\ nuVariant # "none"
  /\ Len(nuOut) < MaxNormalizations
  /\ nuOut' = Append(nuOut, ActivityUrlOf(nuVariant, nuOut[Len(nuOut)]))
  /\ UNCHANGED <<nuVariant, nuUrl, exVars, pxVars, cxVars, dsVars,
                 navVars, heurVars, persAll, loginVars, runVars>>

(***************************************************************************)
(* Expiry prediction of a cookie set                                       *)
(*   No file under src/ defines or calls it; modelled from the contract of *)
(*   CookieStore.predictExpiry in spec.md.  Time is counted in days.       *)
(***************************************************************************)
MaxCookies == 2
MaxDay == 3

PRIMARY_COOKIE == "li_at"
DEFAULT_DAYS_LEFT == 30

CookieNames == {PRIMARY_COOKIE, "JSESSIONID"}

\* expiresAtEpoch is optional: hasExpiry tells whether the cookie has one.
Cookie(name, hasExpiry, expires) ==
  [name |-> name, hasExpiry |-> hasExpiry, expires |-> expires]

Cookies ==
  { Cookie(nm, TRUE, e) : nm \in CookieNames, e \in 0..MaxDay }
    \cup { Cookie(nm, FALSE, 0) : nm \in CookieNames }

CookieSets == UNION { [1..n -> Cookies] : n \in 1..MaxCookies }

\* {expired, daysLeft}: hasDays is FALSE for daysLeft = null.
Report(expired, hasDays, daysLeft) ==
  [expired |-> expired, hasDays |-> hasDays, daysLeft |-> daysLeft]

\* The first cookie of the set with the primary name, 0 if there is none.
RECURSIVE primaryIndex(_, _)
primaryIndex(cookies, k) ==
  IF k > Len(cookies) THEN 0
  ELSE IF cookies[k].name = PRIMARY_COOKIE THEN k
  ELSE primaryIndex(cookies, k + 1)

\* The comparison with the clock made strict: a cookie that expires now is
\* still reported as live.
predictExpiry_StrictlyBefore(cookies, now) ==
  LET k == primaryIndex(cookies, 1)
  IN  IF k = 0 THEN Report(FALSE, TRUE, DEFAULT_DAYS_LEFT)
      ELSE IF ~cookies[k].hasExpiry THEN Report(FALSE, FALSE, 0)
      ELSE IF cookies[k].expires < now THEN Report(TRUE, TRUE, 0)
      ELSE Report(FALSE, TRUE, cookies[k].expires - now)

\* predictExpiry(cookieSet) -> {expired, daysLeft}: no primary cookie gives
\* the optimistic default; an expiry at or before now gives expired.
predictExpiry(cookies, now) ==
  LET k == primaryIndex(cookies, 1)
  IN  IF k = 0 THEN Report(FALSE, TRUE, DEFAULT_DAYS_LEFT)
      ELSE IF ~cookies[k].hasExpiry THEN Report(FALSE, FALSE, 0)
      ELSE IF cookies[k].expires <= now THEN Report(TRUE, TRUE, 0)
      ELSE Report(FALSE, TRUE, cookies[k].expires - now)

ExpiryQuiet ==
  /\ pxCookies = <<>>
  /\ pxNow = 0
  /\ pxOut = <<>>

ExpiryInit ==
  /\ pxCookies \in CookieSets
  /\ pxNow \in 0..MaxDay
  /\ pxOut = <<>>

\* The expiry of the loaded cookie set is predicted.
PredictCall ==
  /\ pxOut = <<>>
  /\ pxOut' = <<predictExpiry(pxCookies, pxNow)>>
  /\ UNCHANGED <<pxCookies, pxNow, exVars, nuVars, cxVars, dsVars,
                 navVars, heurVars, persAll, loginVars, runVars>>

(***************************************************************************)
(* Item discovery                                                          *)
(*   src/server.js:128-141, src/linkedin-scraper.js:452-473: the ordered   *)
(*   selectors of the post container, then the loop above over what the    *)
(*   chosen one matched.                                                   *)
(***************************************************************************)
SELECTOR_COUNT == 6

Unusable  == Element(<<>>, "href", PostUrn, FALSE)
UsableA   == Element(<<GoodText>>, "href", "", FALSE)
UsableB   == Element(<<GoodText>>, "none", PostUrn, FALSE)

\* What document.querySelectorAll(selector) can return for one selector.
Matches == { <<>>, <<Unusable>>, <<UsableA>>, <<UsableB>>, <<Unusable, UsableB>> }

Documents == [1..SELECTOR_COUNT -> Matches]

\* A selector is passed over as long as none of its matches has a text.
RECURSIVE selectPostElements_UntilUsable(_, _)
selectPostElements_UntilUsable(doc, k) ==
  IF k > SELECTOR_COUNT THEN [consulted |-> SELECTOR_COUNT, elems |-> <<>>]
  ELSE IF \E i \in 1..Len(doc[k]) : contentOf(doc[k][i].texts, 1) # ""
       THEN [consulted |-> k, elems |-> doc[k]]
       ELSE selectPostElements_UntilUsable(doc, k + 1)

\* for (const selector of selectors) { postElements = querySelectorAll(selector);
\* if (postElements.length > 0) break; }
RECURSIVE selectPostElements(_, _)
selectPostElements(doc, k) ==
  IF k > SELECTOR_COUNT THEN [consulted |-> SELECTOR_COUNT, elems |-> <<>>]
  ELSE IF Len(doc[k]) > 0
       THEN [consulted |-> k, elems |-> doc[k]]
       ELSE selectPostElements(doc, k + 1)

DiscoverQuiet ==
  /\ dsDoc = <<>>
  /\ dsUsed = 0

\* The document and the cap an extraction is about to be given.
DiscoverInit ==
  /\ exVariant = "none"
  /\ exElems = <<>>
  /\ exCap \in Caps
  /\ exOut = <<>>
  /\ dsDoc \in Documents
  /\ dsUsed = 0

\* page.evaluate of the extraction: discovery, then the loop.
DiscoverCall ==
  /\ exVariant = "none"
  /\ \E v \in ExtractVariants :
       LET found == selectPostElements(dsDoc, 1)
       IN  /\ exVariant' = v
           /\ exElems' = found.elems
           /\ dsUsed' = found.consulted
           /\ exOut' = extractPosts(v, found.elems, exCap)
  /\ UNCHANGED <<exCap, dsDoc, nuVars, pxVars, cxVars,
                 navVars, heurVars, persAll, loginVars, runVars>>

(***************************************************************************)
(* Overlapping runs and their browsers                                     *)
(*   src/linkedin-scraper.js:604-690, 698-708  runScraper, started at load *)
(*        and by every cron tick, with no test for a run in progress       *)
(*   src/server.js:286-404                     scrapeMultipleUrls, one     *)
(*        call per request, awaited inside the request's handler only      *)
(* `browser` and `page` are locals of the call; a browser is known here by *)
(* its position in the order of launches.                                  *)
(***************************************************************************)
MaxRuns == 2
MaxPageOps == 2

RunIds == 1..MaxRuns

RunKinds == {"cron", "request"}

CxIdle == [pc |-> "idle", kind |-> "none", browser |-> 0, ops |-> 0]

\* A browser: the run whose launch created it, whether it is open, the runs
\* that operated on its page, the runs that closed it and the step they
\* were in.
Context(r) ==
  [owner |-> r, open |-> TRUE, usedBy |-> {}, closedBy |-> {}, closedIn |-> {}]

\* `browser` declared at module level instead: every call reads the handle
\* the latest launch has stored.
browserOf_ModuleLevel(r) == Len(cxCtx)

\* let browser (linkedin-scraper.js:607, server.js:287): the call's own.
browserOf(r) == cxRun[r].browser

CtxQuiet ==
  /\ cxRun = [r \in RunIds |-> CxIdle]
  /\ cxCtx = <<>>

\* A cron tick or a request starts call r, whatever the other calls do.
CX_Start(r) ==
  /\ cxRun[r].pc = "idle"
  /\ \E k \in RunKinds :
       cxRun' = [cxRun EXCEPT ![r] = [CxIdle EXCEPT !.pc = "launch", !.kind = k]]
  /\ UNCHANGED cxCtx

\* browser = await puppeteer.launch(...); a throw leaves browser undefined.
CX_Launch(r) ==
  /\ cxRun[r].pc = "launch"
  /\ \E launched \in BOOLEAN :
       IF launched
       THEN /\ cxCtx' = Append(cxCtx, Context(r))
            /\ cxRun' = [cxRun EXCEPT ![r].pc = "work",
                                      ![r].browser = Len(cxCtx) + 1]
       ELSE /\ cxRun' = [cxRun EXCEPT ![r].pc = "finally"]
            /\ UNCHANGED cxCtx

\* One operation of the call on its page: the login, a navigation or the
\* extraction from a source; it may throw into the call's catch.
CX_PageOp(r) ==
  /\ cxRun[r].pc = "work" /\ cxRun[r].ops < MaxPageOps
  /\ \E throws \in BOOLEAN :
       /\ cxRun' = [cxRun EXCEPT ![r].ops = @ + 1,
                                 ![r].pc = IF throws THEN "finally" ELSE "work"]
       /\ cxCtx' = [cxCtx EXCEPT ![browserOf(r)].usedBy = @ \cup {r}]

\* The loop over the sources is over.
CX_Return(r) ==
  /\ cxRun[r].pc = "work"
  /\ cxRun' = [cxRun EXCEPT ![r].pc = "finally"]
  /\ UNCHANGED cxCtx

\* finally { if (browser) await browser.close(); }
CX_Finally(r) ==
  /\ cxRun[r].pc = "finally"
  /\ cxRun' = [cxRun EXCEPT ![r].pc = "done"]
  /\ IF browserOf(r) # 0
     THEN cxCtx' = [cxCtx EXCEPT ![browserOf(r)].open = FALSE,
                                 ![browserOf(r)].closedBy = @ \cup {r},
                                 ![browserOf(r)].closedIn = @ \cup {"finally"}]
     ELSE UNCHANGED cxCtx

CxRest == <<navVars, heurVars, persAll, loginVars, runVars, exVars, nuVars, pxVars,
           dsVars>>

Overlap_Start   == \E r \in RunIds : CX_Start(r) /\ UNCHANGED CxRest
Overlap_Launch  == \E r \in RunIds : CX_Launch(r) /\ UNCHANGED CxRest
Overlap_PageOp  == \E r \in RunIds : CX_PageOp(r) /\ UNCHANGED CxRest
Overlap_Return  == \E r \in RunIds : CX_Return(r) /\ UNCHANGED CxRest
Overlap_Finally == \E r \in RunIds : CX_Finally(r) /\ UNCHANGED CxRest

FnQuiet == ExtractQuiet /\ UrlQuiet /\ ExpiryQuiet /\ CtxQuiet /\ DiscoverQuiet

(***************************************************************************)
(* Claims about the dedup-and-persist step                                 *)
(***************************************************************************)
\* The store as it was when call p began (calls run one after the other).
StoreBefore(p) == [u \in PostUrls |-> store[u] - pAdded[p][u]]

Distinct(q) == \A i, j \in 1..Len(q) : q[i] = q[j] => i = j

\* C1: after any sequence of runs, lookups failing or not, no two records
\* of the store hold the same Post URL.
C1_PostUrlUniqueInStore ==
  \A u \in PostUrls : store[u] <= 1

\* C2: the same list of N posts, new to the store and pairwise distinct,
\* persisted twice in a row with the store answering: savedCount is N the
\* first time and 0 the second; and whatever the list and the store hold,
\* the first count is the number of its URLs the store lacked.
C2_SecondPassSavesNothing ==
  (tw.stage = 2 /\ sv[1].pc = "done" /\ tw.clean1 /\ pClean[1]) =>
     /\ tw.saved1 = tw.new1
     /\ sv[1].saved = 0
     /\ (tw.fresh1 /\ Distinct(tw.posts)) => tw.saved1 = Len(tw.posts)

\* Two new posts persisted twice: 2 saved, then 0.
C2_Witness ==
  /\ tw.stage = 2
  /\ sv[1].pc = "done"
  /\ tw.clean1 /\ pClean[1]
  /\ tw.fresh1 /\ Distinct(tw.posts)
  /\ Len(tw.posts) = 2
  /\ tw.saved1 = 2
  /\ sv[1].saved = 0

\* C3: for any list and any store contents, a call whose store calls answer
\* creates one record for each URL of the list that had no record and none
\* for the others, and savedCount is the number of records the call created.
C3_WritesExactlyTheNewPosts ==
  \A p \in Savers :
    sv[p].pc = "done" =>
      /\ sv[p].saved = Total(pAdded[p])
      /\ pClean[p] =>
           \A u \in PostUrls :
             pAdded[p][u] =
               IF u \in Range(sv[p].posts) /\ StoreBefore(p)[u] = 0 THEN 1 ELSE 0

\* Two posts, one of them already stored: savedCount = 1.
C3_Witness ==
  /\ sv[1].pc = "done"
  /\ pClean[1]
  /\ Len(sv[1].posts) = 2
  /\ Distinct(sv[1].posts)
  /\ \E u \in Range(sv[1].posts) : StoreBefore(1)[u] = 1
  /\ \E u \in Range(sv[1].posts) : StoreBefore(1)[u] = 0
  /\ sv[1].saved = 1

\* The posts of call p that hold URL u.
IndicesOf(p, u) == { k \in 1..Len(sv[p].posts) : sv[p].posts[k] = u }

\* C22: a store call that fails for one post is that post's loss only: when
\* the call is over every post has been gone through, and every URL of the
\* list that the store lacked and for which no store call failed has been
\* written.
C22_StoreFailureSkipsOnePost ==
  \A p \in Savers :
    sv[p].pc = "done" =>
      /\ sv[p].idx = Len(sv[p].posts)
      /\ \A u \in Range(sv[p].posts) :
           (StoreBefore(p)[u] = 0 /\ IndicesOf(p, u) \cap sv[p].failed = {})
             => pAdded[p][u] >= 1

\* Two new posts: a store call failed for the first and left it unwritten,
\* the second was written all the same.
C22_Witness ==
  /\ sv[1].pc = "done" /\ Len(sv[1].posts) = 2 /\ Distinct(sv[1].posts)
  /\ sv[1].failed = {1}
  /\ StoreBefore(1)[sv[1].posts[1]] = 0 /\ pAdded[1][sv[1].posts[1]] = 0
  /\ StoreBefore(1)[sv[1].posts[2]] = 0 /\ pAdded[1][sv[1].posts[2]] = 1

\* C38: when the persistence calls of two runs overlap, whatever the order
\* of their lookups and creates, the store never holds more than one record
\* with the same Post URL.
C38_OverlappingRunsKeepUrlsUnique ==
  (\A p \in Savers : pClean[p]) => \A u \in PostUrls : store[u] <= 1

\* What does hold: with every store call answering, a call adds a record
\* for a URL only if its own lookup found none, so a second record of a URL
\* is the work of the other call, never of the same one.
OverlapDuplicatesNeedBothCalls ==
  (\A p \in Savers : pClean[p]) =>
     \A u \in PostUrls :
       /\ \A p \in Savers : pAdded[p][u] <= 1
       /\ store[u] > 1 => \A p \in Savers : pAdded[p][u] = 1

(***************************************************************************)
(* Claims about safeGoto                                                   *)
(***************************************************************************)
NavCalled == navUrl # ""

GotoEvents(r) == SelectSeq(r.events, LAMBDA e : e.type = "goto")

\* Every attempt fails, by a throw or by a non-OK response.
AlwaysFailing(outs) == \A k \in 1..MAX_RETRIES : outs[k] \in {"throw", "notok"}

\* C4: with maxRetries = 3 and a navigation that fails at every attempt, by
\* throwing or by a non-OK response, safeGoto makes exactly 3 attempts,
\* returns false and does not throw.
C4_ExhaustedRetriesReturnFalse ==
  (NavCalled /\ AlwaysFailing(navOuts)) =>
     /\ Len(GotoEvents(navRes)) = 3
     /\ \A k \in 1..3 : GotoEvents(navRes)[k].attempt = k
     /\ navRes.ok = FALSE
     /\ navRes.threw = FALSE

\* A call where both kinds of failure occurred and the retries ran out.
C4_Witness ==
  /\ NavCalled
  /\ AlwaysFailing(navOuts)
  /\ \E k \in 1..MAX_RETRIES : navOuts[k] = "throw"
  /\ \E k \in 1..MAX_RETRIES : navOuts[k] = "notok"
  /\ Len(GotoEvents(navRes)) = 3

\* C5: whenever attempt k fails, by a throw or by a non-OK response, and
\* another attempt follows, the wait k * baseBackoff lies between the two.
C5_BackoffAfterEveryFailedAttempt ==
  NavCalled =>
    \A j \in 1..Len(navRes.events) :
      LET e == navRes.events[j] IN
        ( /\ e.type = "goto"
          /\ e.outcome \in {"throw", "notok"}
          /\ \E j2 \in (j + 1)..Len(navRes.events) :
                 navRes.events[j2].type = "goto" )
        => navRes.events[j + 1] = WaitEvent(e.attempt, e.attempt * BACKOFF_MS)

\* The first attempt whose outcome is in `good`, MAX_RETRIES + 1 if none.
FirstAttemptIn(outs, good) ==
  IF \E k \in 1..MAX_RETRIES : outs[k] \in good
  THEN CHOOSE k \in 1..MAX_RETRIES :
         /\ outs[k] \in good
         /\ \A k2 \in 1..(k - 1) : outs[k2] \notin good
  ELSE MAX_RETRIES + 1

\* safeGoto makes its attempts in order and stops with true at the first
\* one in `good`, or with false after MAX_RETRIES attempts if there is none.
StopsAtFirst(good) ==
  LET first == FirstAttemptIn(navOuts, good) IN
    /\ navRes.ok <=> first <= MAX_RETRIES
    /\ Len(GotoEvents(navRes)) = IF first <= MAX_RETRIES THEN first ELSE MAX_RETRIES
    /\ \A k \in 1..Len(GotoEvents(navRes)) : GotoEvents(navRes)[k].attempt = k

\* C29: safeGoto returns true exactly when one of its attempts gets an OK
\* response or loads with no response object, and it makes no attempt after
\* the first such one.
C29_TrueIffSomeAttemptOkOrNoResponse ==
  NavCalled => StopsAtFirst({"ok", "null"})

\* What the loop does: only a response object whose ok() is true ends it
\* with true; a navigation that resolves with null is retried like a non-OK
\* response.
NavTrueIffSomeResponseOk ==
  NavCalled => StopsAtFirst({"ok"})

(***************************************************************************)
(* Claims about checkIfLoggedIn                                            *)
(***************************************************************************)
HeurCalled == hVariant # "none"

\* The authenticated-surface pattern: feed, network or personal profile.
AuthenticatedSurface(url) ==
  Includes(url, "/feed") \/ Includes(url, "/mynetwork") \/ Includes(url, "/in/")

\* C6: the heuristic returns true whenever at least 2 of the five signals
\* are positive and false whenever none is, whatever the URL.
C6_TwoSignalsSufficeZeroSignalsFail ==
  (HeurCalled /\ hEvalOk) =>
     /\ (positiveChecks(hChecks) >= 2 => hResult = TRUE)
     /\ (positiveChecks(hChecks) = 0 => hResult = FALSE)

\* C7: with exactly 1 positive signal, linkedin-scraper.js's heuristic
\* reports authenticated iff the URL is an authenticated surface.
C7_OneSignalNeedsUrl ==
  (hVariant = "linkedin-scraper" /\ hEvalOk /\ positiveChecks(hChecks) = 1) =>
     (hResult <=> AuthenticatedSurface(hChecks.url))

\* One signal on the network page: accepted on the URL's corroboration.
C7_Witness ==
  /\ hVariant = "linkedin-scraper"
  /\ hEvalOk
  /\ positiveChecks(hChecks) = 1
  /\ Includes(hChecks.url, "/mynetwork")
  /\ hResult = TRUE

(***************************************************************************)
(* Claims about the tiered login                                           *)
(***************************************************************************)
LoginCalled == lg.pc # "idle"

LogIndices == 1..Len(lgLog)

\* The login has navigated, by safeGoto or by page.goto, to this address.
NavigatedTo(url) ==
  \E i \in LogIndices : lgLog[i].kind \in {"safeGoto", "goto"} /\ lgLog[i].arg = url

Count(kind) == Cardinality({ i \in LogIndices : lgLog[i].kind = kind })

\* C8: with neither cookie material nor a credential pair configured, the
\* login never navigates to the credential login page and, once it has
\* returned, has returned failure.
C8_NoMaterialFailsWithoutLoginPage ==
  (LoginCalled /\ lg.cookiesEnv = "absent" /\ ~lg.creds) =>
     /\ ~NavigatedTo(LoginUrl)
     /\ lg.pc = "done" => lg.result = "fail"

\* C9: each tier is attempted at most once; when cookie material is
\* configured the cookie attempt is the first thing the login does, and a
\* credential attempt comes only after that cookie attempt has failed; with
\* no cookie material there is no cookie attempt.
C9_CookieTierBeforeCredentialTier ==
  LoginCalled =>
     /\ Count("cookie-attempt") <= 1
     /\ Count("credential-attempt") <= 1
     /\ lg.cookiesEnv = "absent" => Count("cookie-attempt") = 0
     /\ (lg.cookiesEnv # "absent" /\ lgLog # <<>>) => lgLog[1].kind = "cookie-attempt"
     /\ \A j \in LogIndices :
          (lgLog[j].kind = "credential-attempt" /\ lg.cookiesEnv # "absent") =>
             \E i \in 1..(j - 1) :
                /\ lgLog[i].kind = "cookie-attempt"
                /\ \E k \in (i + 1)..(j - 1) : lgLog[k] = Ev("cookie-result", "", FALSE)

\* A login that tried the cookies, saw them rejected by the page, and then
\* got in with the credentials.
C9_Witness ==
  /\ lg.pc = "done" /\ lg.result = "ok" /\ lg.cookiesEnv = "valid"
  /\ Count("cookie-attempt") = 1 /\ Count("credential-attempt") = 1
  /\ \E i \in LogIndices : lgLog[i] = Ev("check", "cookie", FALSE)
  /\ \E i \in LogIndices : lgLog[i].kind = "submit"

\* The submit of the credential form landed on a challenge page.
ChallengeSeen ==
  \E i \in LogIndices : lgLog[i] = Ev("classified", "challenge", FALSE)

\* What loginToLinkedIn reports to its caller when the credentials are
\* rejected (the submit lands back on the login page).
OrdinaryFailureReport == "fail"

\* C11: once the submit has landed on a challenge page the login does
\* nothing more (the classification is the last thing in its record), it
\* has returned, and what it returned is neither success nor what it
\* returns for an ordinary authentication failure.
C11_ChallengeIsTerminalAndDistinct ==
  (LoginCalled /\ ChallengeSeen) =>
     /\ lgLog[Len(lgLog)] = Ev("classified", "challenge", FALSE)
     /\ lg.pc = "done"
     /\ lg.result \notin {"ok", OrdinaryFailureReport}

(***************************************************************************)
(* Claims about a run                                                      *)
(***************************************************************************)
RunIndices == 1..Len(runLog)

\* The run has gone to a source's page, extracted from it, or handed its
\* posts to the dedup-and-persist step.
TouchedASource ==
  \E i \in RunIndices : runLog[i].kind \in {"source-nav", "extract", "persist"}

\* C10: a run navigates to a source, extracts or persists only if its
\* authentication ended authenticated (for the scheduled run: its call of
\* loginToLinkedIn returned true); a run whose authentication failed has
\* handled no source and is past its source loop.
C10_NoSourceWithoutAuthentication ==
  /\ TouchedASource => run.auth = "ok"
  /\ (run.auth = "ok" /\ run.variant \in ScheduledVariants) =>
        lg.pc = "done" /\ lg.result = "ok"
  /\ run.auth = "fail" =>
        /\ run.idx = 0 /\ run.results = <<>>
        /\ run.pc \in {"finally", "respond", "done"}

\* A run over two sources whose authentication failed after the browser was
\* launched, and which is over.
C10_Witness ==
  /\ run.pc = "done" /\ run.auth = "fail" /\ NumSources = 2
  /\ run.browser = "closed" /\ ~TouchedASource

RunCount(kind) == Cardinality({ i \in RunIndices : runLog[i].kind = kind })

\* The run's operations on its browser page; "persist" and "respond" work
\* on the store and on the HTTP response.
PageOperations ==
  {"newPage", "login", "auth-nav", "setCookie", "source-nav", "extract"}

BrowserClosedOnceAndLast ==
  /\ RunCount("close") <= 1
  /\ run.browser = "closed" <=> RunCount("close") = 1
  /\ run.browser = "none" <=> RunCount("launch") = 0
  /\ \A i \in RunIndices : runLog[i].kind = "close" =>
        \A j \in (i + 1)..Len(runLog) : runLog[j].kind \notin PageOperations
  /\ lg.pc \notin {"idle", "done"} => run.browser = "open"
  /\ run.pc = "done" => run.browser # "open"

\* C12: a launched browser is closed, once, before the run is over, on
\* every path; after the close the run does nothing more to the page; and
\* an open browser is eventually closed.
C12_BrowserClosedExactlyOnce ==
  /\ []BrowserClosedOnceAndLast
  /\ (run.browser = "open") ~> (run.browser = "closed")

\* A run whose page setup threw right after the launch, and which is over.
C12_Witness ==
  /\ run.pc = "done" /\ run.success = "error" /\ run.auth = "none"
  /\ run.browser = "closed"
  /\ runLog[Len(runLog)].kind \in {"close", "respond"}

\* The run is authenticated and has left its loop over the sources.
AuthenticatedPastLoop ==
  run.auth = "ok" /\ run.pc \in {"finally", "respond", "done"}

SourceNavigated(j) ==
  \E i \in RunIndices : runLog[i].kind = "source-nav" /\ runLog[i].src = j

\* Crawling source j failed: its page could not be loaded, the extraction
\* threw, or the store calls for its posts failed.
SourceFailed(j) ==
  \E i \in RunIndices :
     /\ runLog[i].src = j
     /\ runLog[i].kind \in {"source-nav", "extract", "store-error"}
     /\ ~runLog[i].ok

\* C13: an authenticated run leaves its loop only after every source has
\* been handled: each source with a profile or company URL has been
\* navigated to, whatever happened to the sources before it (an entry
\* without a usable URL is recorded as invalid); and the sources are taken
\* in order, none twice.
C13_FailedSourceDoesNotAbort ==
  /\ AuthenticatedPastLoop =>
        /\ run.idx = NumSources
        /\ \A j \in 1..NumSources :
             IF run.sources[j] \in {"profile", "company"}
             THEN SourceNavigated(j)
             ELSE run.results[j] = "invalid"
  /\ \A j, k \in 1..NumSources :
        (AuthenticatedPastLoop /\ SourceFailed(j) /\ j < k
           /\ run.sources[k] \in {"profile", "company"}) => SourceNavigated(k)
  /\ \A i, k \in RunIndices :
        (i < k /\ runLog[i].kind = "source-nav" /\ runLog[k].kind = "source-nav")
           => runLog[i].src < runLog[k].src

\* A finished run over two sources: the first could not be loaded, the
\* second was loaded and its extraction threw.
C13_Witness ==
  /\ AuthenticatedPastLoop /\ run.pc = "done" /\ NumSources = 2
  /\ \E i \in RunIndices :
       runLog[i].kind = "source-nav" /\ runLog[i].src = 1 /\ ~runLog[i].ok
  /\ \E i \in RunIndices : runLog[i] = Rv("extract", 2, FALSE)

\* The run has handled every one of its n >= 1 sources and is over.
CrawledAllSources ==
  /\ run.pc = "done" /\ NumSources >= 1 /\ run.idx = NumSources
  /\ run.auth = "ok" \/ run.entry = "scrape-batch"

\* The delay after source j: it comes after j's navigation and, when there
\* is a next source, before that one's.
DelayAfter(j) ==
  \E d \in RunIndices :
     /\ runLog[d] = Rv("delay", j, TRUE)
     /\ \A i \in RunIndices :
          runLog[i].kind = "source-nav" =>
             IF runLog[i].src <= j THEN i < d ELSE d < i

\* C14: a run that has crawled its n sources has made exactly n-1 delays:
\* one after each source but the last, none after the last.
C14_DelayBetweenSourcesOnly ==
  CrawledAllSources =>
     /\ RunCount("delay") = NumSources - 1
     /\ \A j \in 1..(NumSources - 1) : DelayAfter(j)
     /\ ~\E d \in RunIndices : runLog[d] = Rv("delay", NumSources, TRUE)

\* The run has begun to authenticate: the scheduled run has called
\* loginToLinkedIn, an on-demand run has navigated to install its cookies.
AuthenticationAttempted ==
  \/ lg.pc # "idle"
  \/ run.auth # "none"
  \/ \E i \in RunIndices : runLog[i].kind \in {"login", "auth-nav", "setCookie"}

\* C15: a run over an empty list of sources launches no browser and
\* attempts no authentication, from whichever entry point it was started.
C15_EmptyListTouchesNothing ==
  (run.pc # "idle" /\ NumSources = 0) =>
     /\ run.browser = "none" /\ RunCount("launch") = 0
     /\ ~AuthenticationAttempted

(***************************************************************************)
(* Claims about extraction                                                 *)
(***************************************************************************)
ExtractCalled == exVariant # "none"

\* C16: an extraction returns at most cap items, each with a non-empty
\* content and a non-empty post URL.
C16_AtMostCapItemsAllComplete ==
  ExtractCalled =>
     /\ Len(exOut) <= exCap
     /\ \A k \in 1..Len(exOut) : exOut[k].content # "" /\ exOut[k].postUrl # ""

\* A page with more usable posts than the cap: the cap is what stops the
\* loop.
C16_Witness ==
  /\ ExtractCalled /\ exCap >= 1 /\ Len(exOut) = exCap
  /\ Len(exElems) > exCap

\* C17: every extracted post has a content of at most 1000 characters.
C17_ContentAtMostLimit ==
  ExtractCalled => \A k \in 1..Len(exOut) : Len(exOut[k].content) <= CONTENT_LIMIT

\* The element has a text, has a URL and can be read without a throw.
Qualifies(variant, e) ==
  /\ ~e.throws
  /\ \E k \in 1..Len(e.texts) : Len(Trim(e.texts[k])) > 10
  /\ IF variant = "linkedin-scraper"
     THEN e.anchor = "href" \/ (e.anchor = "none" /\ e.urn # "")
     ELSE e.anchor = "href" \/ e.urn # ""

\* The positions, among the first cap elements, of those that qualify.
KeptPositions ==
  { i \in 1..Len(exElems) : i <= exCap /\ Qualifies(exVariant, exElems[i]) }

\* C36: the output is the qualifying elements among the first cap ones, in
\* document order: the k-th item comes from the k-th qualifying element, so
\* a skipped element neither ends the loop nor keeps a later one within the
\* cap out, and nothing beyond the cap is returned.
C36_QualifyingAmongFirstCapInOrder ==
  ExtractCalled =>
     /\ Len(exOut) = Cardinality(KeptPositions)
     /\ \A k \in 1..Len(exOut) :
          \E i \in KeptPositions :
            /\ Cardinality({ j \in KeptPositions : j <= i }) = k
            /\ exOut[k] = itemOf(exVariant, exElems[i])

\* The first element is skipped and the second, within the cap, comes out.
C36_Witness ==
  /\ ExtractCalled /\ Len(exElems) = 2 /\ exCap = 2
  /\ ~Qualifies(exVariant, exElems[1]) /\ Qualifies(exVariant, exElems[2])
  /\ Len(exOut) = 1

\* The date an item must carry: the element's datetime attribute, and the
\* crawl time when it has none.
ExpectedDate(e) ==
  IF e.time = "datetime" THEN DateString(DatetimeAttr) ELSE DateString(CrawlTime)

\* C37: every extracted post has a publishedAt: the datetime attribute found
\* in its container, else the crawl time; a <time> without the attribute
\* gives the crawl time, never null or an empty string.
C37_DatetimeAttributeElseCrawlTime ==
  ExtractCalled =>
     /\ \A k \in 1..Len(exOut) : ~exOut[k].date.isNull /\ exOut[k].date.str # ""
     /\ \A i \in KeptPositions :
          \E k \in 1..Len(exOut) :
            /\ Cardinality({ j \in KeptPositions : j <= i }) = k
            /\ exOut[k].date = ExpectedDate(exElems[i])

\* What does hold: the attribute is used when the <time> has it, and the
\* crawl time when the container has no <time> at all.
DateFromAttributeOrCrawlTimeWithoutTimeElement ==
  ExtractCalled =>
     \A i \in KeptPositions :
       exElems[i].time \in {"datetime", "none"} =>
          \E k \in 1..Len(exOut) :
            /\ Cardinality({ j \in KeptPositions : j <= i }) = k
            /\ exOut[k].date = ExpectedDate(exElems[i])

(***************************************************************************)
(* Claims about item discovery                                             *)
(***************************************************************************)
\* The selectors that match at least one element of the document.
MatchingSelectors == { k \in 1..SELECTOR_COUNT : dsDoc[k] # <<>> }

\* C35: the containers are those of the first selector, in list order, that
\* matches at least one element; no selector after it is consulted, and the
\* output holds nothing but what those containers yield, even when each of
\* them is skipped.
C35_FirstMatchingSelectorOnly ==
  (ExtractCalled /\ dsDoc # <<>>) =>
     /\ MatchingSelectors = {} => (exElems = <<>> /\ exOut = <<>>)
     /\ \A k \in MatchingSelectors :
          (\A j \in MatchingSelectors : k <= j) =>
             /\ dsUsed = k
             /\ exElems = dsDoc[k]
     /\ Len(exOut) = Cardinality(KeptPositions)

\* The first matching selector gave one container without text, a later
\* selector would have given a usable one: nothing is returned.
C35_Witness ==
  /\ ExtractCalled /\ dsDoc # <<>> /\ exCap >= 1
  /\ dsUsed = 2 /\ exElems = <<Unusable>>
  /\ dsDoc[3] = <<UsableA>>
  /\ exOut = <<>>

(***************************************************************************)
(* Claims about the activity URL                                           *)
(***************************************************************************)
RECURSIVE CountFrom(_, _, _)
CountFrom(s, p, i) ==
  IF i + Len(p) - 1 > Len(s) THEN 0
  ELSE (IF SubSeq(s, i, i + Len(p) - 1) = p THEN 1 ELSE 0) + CountFrom(s, p, i + 1)

\* How many times p occurs in s.
Occurrences(s, p) == CountFrom(s, p, 1)

CleanSource == StripTrailingSlash(Trim(nuUrl))

SuffixOf(type) == IF type = "profile" THEN "/recent-activity/all" ELSE "/posts"

\* C18: the activity URL is the source URL with the suffix of its type
\* appended unless it is already there: a source URL that ends with the
\* suffix, with or without a trailing slash, gets no second suffix, and an
\* activity URL given as a source URL again comes back unchanged.
C18_SuffixAppendedOnceAndIdempotent ==
  LET type == detectUrlType(CleanSource)
  IN  /\ (Len(nuOut) >= 1 /\ type # "unknown") =>
            /\ EndsWith(StripTrailingSlash(nuOut[1]), SuffixOf(type))
            /\ EndsWith(CleanSource, SuffixOf(type)) =>
                  Occurrences(nuOut[1], SuffixOf(type)) = 1
      /\ \A k \in 2..Len(nuOut) : nuOut[k] = nuOut[k - 1]

\* What does hold: a source URL of a known type without any activity path
\* gets the suffix of its type appended once by normalizeUrl.
BareUrlGetsItsSuffix ==
  LET type == detectUrlType(CleanSource)
  IN  (/\ nuVariant = "server" /\ Len(nuOut) >= 1 /\ type # "unknown"
       /\ Occurrences(CleanSource, "/recent-activity") = 0
       /\ Occurrences(CleanSource, "/posts") = 0)
      => nuOut[1] = CleanSource \o SuffixOf(type) \o "/"

(***************************************************************************)
(* Claims about how the pipeline navigates                                 *)
(***************************************************************************)
\* C19: every navigation of a run (the base domain before the cookies are
\* installed, the feed, the login page, every source's activity page) is made
\* by safeGoto, never by a bare page.goto.
C19_EveryNavigationThroughSafeGoto ==
  /\ \A i \in LogIndices : lgLog[i].kind # "goto"
  /\ \A i \in RunIndices :
       runLog[i].kind \in {"auth-nav", "source-nav"} => runLog[i].via = "safeGoto"

\* What does hold: linkedin-scraper.js navigates by safeGoto only.
SchedulerNavigatesThroughSafeGoto ==
  run.variant = "linkedin-scraper" => C19_EveryNavigationThroughSafeGoto

(***************************************************************************)
(* Claims about invalid cookie material                                    *)
(***************************************************************************)
InvalidCookieEnvs == {"badjson", "notarray", "emptyarray"}

\* The login of the scheduled scraper is over and had been given cookie
\* material that is not a non-empty array: loadCookies installed nothing, the
\* cookie tier returned false, and the credentials were tried if configured,
\* the login failing otherwise.
InvalidMaterialFailsCookieTier ==
  (lg.pc = "done" /\ lg.cookiesEnv \in InvalidCookieEnvs) =>
     /\ \A i \in LogIndices : lgLog[i].kind # "setCookie"
     /\ \E i \in LogIndices : lgLog[i] = Ev("cookie-result", "", FALSE)
     /\ lg.creds => \E i \in LogIndices : lgLog[i].kind = "credential-attempt"
     /\ ~lg.creds => lg.result # "ok"

\* The on-demand run is over and had been given such material: its
\* loadCookies did not return true (no page.setCookie call went through) and
\* the run was not authenticated.
InvalidMaterialFailsServerRun ==
  (run.variant \in ServerVariants /\ run.pc = "done"
     /\ run.cookiesEnv \in InvalidCookieEnvs) =>
     /\ \A i \in RunIndices : runLog[i].kind # "setCookie"
     /\ run.auth # "ok"

\* C20: cookie material that is not a non-empty array of cookies makes the
\* cookie tier fail with no cookie installed; the login goes on to the
\* credentials if they are configured and fails otherwise.
C20_InvalidCookieMaterialFailsTier ==
  InvalidMaterialFailsCookieTier /\ InvalidMaterialFailsServerRun

(***************************************************************************)
(* Claims about the expiry prediction                                      *)
(***************************************************************************)
Predicted == pxOut # <<>>

HasPrimary == primaryIndex(pxCookies, 1) # 0

Primary == pxCookies[primaryIndex(pxCookies, 1)]

\* C21: predictExpiry reports expired when the primary session cookie's
\* expiry is at or before now, not expired for a set whose primary cookie
\* has not expired, and never expired for a set without the primary cookie.
C21_ExpiredIffPrimaryPastExpiry ==
  Predicted =>
     /\ (HasPrimary /\ Primary.hasExpiry /\ Primary.expires <= pxNow)
           => pxOut[1].expired
     /\ (HasPrimary /\ (~Primary.hasExpiry \/ Primary.expires > pxNow))
           => ~pxOut[1].expired
     /\ ~HasPrimary => ~pxOut[1].expired

\* A set whose primary cookie expires exactly now, behind another cookie
\* that is still live.
C21_Witness ==
  /\ Predicted /\ Len(pxCookies) = 2
  /\ pxCookies[1].name # PRIMARY_COOKIE /\ pxCookies[1].hasExpiry
  /\ pxCookies[1].expires > pxNow
  /\ HasPrimary /\ Primary.hasExpiry /\ Primary.expires = pxNow
  /\ pxOut[1].expired

(***************************************************************************)
(* Claims about what a run reports                                         *)
(***************************************************************************)
\* The page of source j could not be loaded, or its extraction threw.
CrawlFailed(j) ==
  \E i \in RunIndices :
     /\ runLog[i].src = j
     /\ runLog[i].kind \in {"source-nav", "extract"}
     /\ ~runLog[i].ok

\* What the run hands back says that source j failed: its entry is a
\* failure entry, or (one profile per call) the call itself failed.
ReportedAsFailure(j) ==
  IF j \in DOMAIN run.results THEN run.results[j] = "failed"
  ELSE run.success = "error"

\* C23: when an authenticated run is over, every source whose page could not
\* be loaded or whose extraction threw is reported as failed, which a source
\* that succeeded with no new post is not.
C23_SourceFailureIsReported ==
  (run.pc = "done" /\ run.auth = "ok") =>
     \A j \in 1..NumSources : CrawlFailed(j) => ReportedAsFailure(j)

\* The run of server.js has ended with its summary.
SummaryReturned ==
  run.variant = "server" /\ run.pc = "done" /\ run.auth = "ok" /\ run.success = "true"

\* C24: in the summary of a completed authenticated run every requested
\* source has one result entry, at its place in the request, and
\* successfulUrls + failedUrls = totalUrls = the number of requested sources.
C24_OneEntryPerRequestedSource ==
  SummaryReturned =>
     /\ Len(run.results) = run.requested
     /\ successfulUrls + failedUrls = totalUrls
     /\ totalUrls = run.requested
     /\ \A j \in 1..Len(run.results) :
          /\ run.results[j] = "invalid" <=> run.sources[j] \in {"unknown", "missing"}
          /\ run.results[j] = "failed" <=> CrawlFailed(j)

\* What does hold: the summary has one entry, in order, for every entry of
\* the list the handler passed to scrapeMultipleUrls.
OneEntryPerUrlPassed ==
  SummaryReturned =>
     /\ Len(run.results) = Len(run.sources)
     /\ successfulUrls + failedUrls = totalUrls
     /\ \A j \in 1..Len(run.results) :
          /\ run.results[j] = "invalid" <=> run.sources[j] \in {"unknown", "missing"}
          /\ run.results[j] = "failed" <=> CrawlFailed(j)

\* What does hold: the on-demand variants report every such failure.
ServerReportsSourceFailure ==
  run.variant \in ServerVariants => C23_SourceFailureIsReported

(***************************************************************************)
(* Claims about the on-demand requests                                     *)
(***************************************************************************)
OnDemand == run.variant \in ServerVariants

Answered == OnDemand /\ run.pc = "done"

\* Nothing was started for the request: no browser, no page, no store call.
NoRunStarted ==
  /\ run.browser = "none" /\ run.auth = "none" /\ lg.pc = "idle"
  /\ \A i \in RunIndices : runLog[i].kind = "respond"

\* C25: a request whose Authorization header is missing or is not exactly
\* "Bearer <secret>" is answered 401, and nothing is started for it.
C25_UnauthorizedRequestStartsNothing ==
  (OnDemand /\ run.header # "Bearer " \o API_SECRET) =>
     /\ NoRunStarted
     /\ run.pc \in {"start", "done"}
     /\ run.pc = "done" => run.status = 401

\* A request with the secret but a trailing blank has been answered 401.
C25_Witness ==
  /\ Answered /\ run.header = "Bearer s3cret "
  /\ run.status = 401 /\ Len(run.sources) > 0 /\ run.cookiesEnv = "valid"

\* The request carries the secret and names no target: the field is
\* missing, or it is an empty list.
NoTargetGiven ==
  /\ OnDemand /\ run.header = "Bearer " \o API_SECRET
  /\ run.form = "absent" \/ run.requested = 0

\* C26: an authenticated request without the target field or with an empty
\* list gets a 400 with an example payload, on every endpoint, and no run
\* is started for it.
C26_NoTargetGetsClientErrorWithExample ==
  NoTargetGiven =>
     /\ NoRunStarted
     /\ run.pc \in {"start", "done"}
     /\ run.pc = "done" => (run.status = 400 /\ run.example)

\* What does hold: a request without the target field gets a 400 and starts
\* nothing, on every endpoint.
MissingFieldGetsClientError ==
  (NoTargetGiven /\ run.form = "absent") =>
     /\ NoRunStarted
     /\ run.pc \in {"start", "done"}
     /\ run.pc = "done" => run.status = 400

(***************************************************************************)
(* Claims about the cookies a login hands out                              *)
(***************************************************************************)
LogHas(kind) == \E i \in LogIndices : lgLog[i].kind = kind

\* The login returned true after submitting the form.
FreshCredentialLogin == lg.pc = "done" /\ lg.result = "ok" /\ LogHas("submit")

\* C27: the session's cookies are read out and printed only at the end of a
\* login that submitted the form and was judged authenticated (never after
\* a cookie login, the already-logged-in return or a failed attempt), and
\* at the end of every such login.
C27_CookiesExportedIffFreshLogin ==
  /\ \A i \in LogIndices :
       lgLog[i].kind = "export-cookies" =>
          /\ i = Len(lgLog) /\ FreshCredentialLogin
          /\ \E k \in 1..(i - 1) : lgLog[k].kind = "submit"
  /\ lg.pc = "done" => \A i, k \in LogIndices :
       (lgLog[i].kind = "export-cookies" /\ lgLog[k].kind = "export-cookies") => i = k
  /\ FreshCredentialLogin => LogHas("export-cookies")

\* What does hold: cookies are exported only by a successful login that
\* submitted the form, and at most once.
CookiesExportedOnlyByFreshLogin ==
  /\ \A i \in LogIndices :
       lgLog[i].kind = "export-cookies" =>
          /\ i = Len(lgLog) /\ FreshCredentialLogin
          /\ \E k \in 1..(i - 1) : lgLog[k].kind = "submit"
  /\ \A i, k \in LogIndices :
       (lgLog[i].kind = "export-cookies" /\ lgLog[k].kind = "export-cookies") => i = k

\* What does hold in linkedin-scraper.js: every login that returns true
\* after the submit has exported the cookies.
SchedulerExportsOnEveryFreshLogin ==
  (lg.variant = "linkedin-scraper" /\ FreshCredentialLogin) => LogHas("export-cookies")

(***************************************************************************)
(* Claims about the credential attempt before the submit                   *)
(***************************************************************************)
\* The heuristic, asked on the login page, reported an authenticated session.
AlreadyLoggedIn ==
  \E i \in LogIndices : lgLog[i] = Ev("check", "already", TRUE)

\* C31: when the heuristic asked on the login page reports an authenticated
\* session, the credential attempt returns success at once: the form is
\* not looked for, nothing is typed and nothing is submitted.
C31_AlreadyLoggedInShortCircuits ==
  AlreadyLoggedIn =>
     /\ lg.pc = "done" /\ lg.result = "ok"
     /\ lgLog[Len(lgLog)] = Ev("check", "already", TRUE)
     /\ ~LogHas("form") /\ ~LogHas("type") /\ ~LogHas("submit")

\* The cookie tier failed, the login page loaded and the heuristic passed.
C31_Witness ==
  /\ AlreadyLoggedIn /\ lg.pc = "done" /\ lg.result = "ok"
  /\ lg.cookiesEnv = "valid"
  /\ \E i \in LogIndices : lgLog[i] = Ev("safeGoto", LoginUrl, TRUE)

\* The identifier input was looked for on the login page and not found.
FormAbsent == \E i \in LogIndices : lgLog[i] = Ev("form", "", FALSE)

\* part_000 asks no heuristic on the login page: a session already
\* authenticated shows there as a redirect to the feed or the network.
RedirectedToFeed ==
  Includes(page.url, "/feed") \/ Includes(page.url, "/mynetwork")

\* C32: when the session is not already authenticated and the identifier
\* input is absent from the login page, the credential attempt fails,
\* having typed no credential and submitted nothing.
C32_NoFormNoTypingNoSubmit ==
  FormAbsent =>
     /\ lg.pc = "done"
     /\ lgLog[Len(lgLog)] = Ev("form", "", FALSE)
     /\ ~LogHas("type") /\ ~LogHas("submit")
     /\ lg.variant = "linkedin-scraper" =>
          /\ lg.result = "fail"
          /\ \E i \in LogIndices : lgLog[i] = Ev("check", "already", FALSE)
     /\ (lg.variant = "part_000" /\ ~RedirectedToFeed) => lg.result = "fail"

\* part_000 on a login page without the input and without a redirect.
C32_Witness ==
  /\ FormAbsent /\ lg.variant = "part_000" /\ lg.pc = "done"
  /\ page.url = LoginUrl /\ lg.result = "fail" /\ lg.creds

(***************************************************************************)
(* Claims about the classification after the submit                        *)
(***************************************************************************)
\* The login has returned after submitting the form; `page` is where the
\* submit landed.
SubmittedAndReturned == lg.pc = "done" /\ LogHas("submit")

OnChallengePath == Includes(page.url, "/checkpoint/challenge")
OnLoginPath     == Includes(page.url, "/login")

\* The heuristic's verdicts on the page the submit landed on.
HeuristicVerdicts ==
  { lgLog[i].ok : i \in { j \in LogIndices : lgLog[j] = Ev("check", "submitted", lgLog[j].ok) } }

\* C30: after the submit, a challenge path is a failure without the
\* heuristic being asked; otherwise a login path is a credential failure;
\* otherwise the heuristic is asked and its verdict is the login's result.
C30_ChallengeThenLoginThenHeuristic ==
  SubmittedAndReturned =>
     /\ OnChallengePath =>
          /\ lg.result # "ok"
          /\ lgLog[Len(lgLog)] = Ev("classified", "challenge", FALSE)
     /\ (~OnChallengePath /\ OnLoginPath) =>
          /\ lg.result # "ok"
          /\ lgLog[Len(lgLog)] = Ev("classified", "login", FALSE)
     /\ (~OnChallengePath /\ ~OnLoginPath) =>
          /\ HeuristicVerdicts # {}
          /\ lg.result = "ok" <=> HeuristicVerdicts = {TRUE}

\* What does hold in both variants: a challenge path and a login path are
\* failures with the heuristic not asked, the challenge named first when
\* the URL shows both.
ChallengeAndLoginPathsFail ==
  SubmittedAndReturned =>
     /\ OnChallengePath =>
          /\ lg.result # "ok"
          /\ lgLog[Len(lgLog)] = Ev("classified", "challenge", FALSE)
     /\ (~OnChallengePath /\ OnLoginPath) =>
          /\ lg.result # "ok"
          /\ lgLog[Len(lgLog)] = Ev("classified", "login", FALSE)

\* linkedin-scraper.js on any other destination: the heuristic is asked,
\* its false is a failure and its true is a success unless reading the
\* cookies out throws.
SchedulerAsksHeuristicLast ==
  (SubmittedAndReturned /\ lg.variant = "linkedin-scraper"
     /\ ~OnChallengePath /\ ~OnLoginPath) =>
     /\ HeuristicVerdicts # {}
     /\ lg.result = "ok" => HeuristicVerdicts = {TRUE}
     /\ (HeuristicVerdicts = {TRUE} /\ LogHas("export-cookies")) => lg.result = "ok"

(***************************************************************************)
(* Claims about the cookie attempt                                         *)
(***************************************************************************)
\* The login's navigation to `url` resolved, at a log position before i.
WentTo(url, i) ==
  \E j \in 1..(i - 1) :
    lgLog[j].kind \in {"safeGoto", "goto"} /\ lgLog[j].arg = url /\ lgLog[j].ok

\* The order of the cookie attempt in loginToLinkedIn's log: the jar is
\* touched only after the base domain was reached, and the heuristic is
\* asked only after the cookies were installed and the feed was reached.
LoginCookieOrder ==
  \A i \in LogIndices :
    /\ lgLog[i].kind \in {"deleteCookie", "setCookie"} => WentTo(BaseUrl, i)
    /\ (lgLog[i].kind = "deleteCookie" /\ i < Len(lgLog)) =>
         lgLog[i + 1].kind \in {"setCookie", "cookie-result"}
    /\ (lgLog[i].kind = "check" /\ lgLog[i].arg = "cookie") =>
         /\ lgLog[i - 1].kind \in {"safeGoto", "goto"}
         /\ lgLog[i - 1].arg = FeedUrl /\ lgLog[i - 1].ok
         /\ lgLog[i - 2].kind = "setCookie"

\* The same order in an on-demand run, whose heuristic is its last step
\* before the sources: base domain, install, feed, heuristic.
ServerCookieOrder ==
  \A i \in RunIndices :
    /\ runLog[i].kind = "setCookie" =>
         i > 1 /\ runLog[i - 1].kind = "auth-nav" /\ runLog[i - 1].ok
    /\ (runLog[i].kind = "auth-nav" /\ i < Len(runLog)
          /\ runLog[i + 1].kind = "auth-nav") => runLog[i].ok = FALSE
    /\ (run.variant \in ServerVariants /\ run.auth = "ok"
          /\ runLog[i].kind = "setCookie") =>
         runLog[i + 1].kind = "auth-nav" /\ runLog[i + 1].ok

\* The supplied cookies were installed into a jar that had been cleared:
\* when the landing navigation is next, the jar holds them alone.
InstalledIntoClearedJar ==
  /\ lg.pc \in {"ck_feed", "p0_feed"} => lg.jar = "supplied"
  /\ run.pc = "sv_feed" => run.jar = "supplied"

\* C33: the cookie attempt goes base domain, clear the pre-existing
\* cookies, install the supplied ones, landing page, heuristic; the jar is
\* not touched when the base domain was not reached and the heuristic is
\* not asked when the landing page was not reached.
C33_CookieAttemptStepsInOrder ==
  LoginCookieOrder /\ ServerCookieOrder /\ InstalledIntoClearedJar

\* What does hold in every variant: the order of the steps that are there.
CookieAttemptOrderWithoutClearing ==
  LoginCookieOrder /\ ServerCookieOrder

\* linkedin-scraper.js clears before it installs.
SchedulerClearsBeforeInstalling ==
  lg.pc = "ck_feed" => lg.jar = "supplied"

(***************************************************************************)
(* Claims about the alternation of extraction and persistence              *)
(***************************************************************************)
\* C34: within a run, what source j yielded is passed through the
\* dedup-and-persist step before the navigation to a later source begins:
\* no "persist" of source j comes after the navigation to a source k > j.
C34_PersistBeforeNextSource ==
  \A p, n \in RunIndices :
    ( /\ runLog[p].kind = "persist"
      /\ runLog[n].kind = "source-nav"
      /\ runLog[p].src < runLog[n].src ) => p < n

\* What does hold for the scheduled run, whose scrapeProfilePosts persists
\* before it returns: its sources are persisted one by one, in between the
\* navigations.
SchedulerPersistsPerSource ==
  run.variant \in ScheduledVariants =>
    \A p, n \in RunIndices :
      ( /\ runLog[p].kind = "persist"
        /\ runLog[n].kind = "source-nav"
        /\ runLog[p].src < runLog[n].src ) => p < n

\* What the saving endpoint does: every "persist" comes after the last
\* navigation and extraction of the run.
ServerPersistsAfterAllSources ==
  run.variant = "server" =>
    \A p, n \in RunIndices :
      ( /\ runLog[p].kind = "persist"
        /\ runLog[n].kind \in {"source-nav", "extract"} ) => n < p

(***************************************************************************)
(* Claims about overlapping runs                                           *)
(***************************************************************************)
CtxIds == 1..Len(cxCtx)

\* C28: however runs overlap, a browser is operated on and closed only by
\* the run that launched it; it is closed in that run's finally, not while
\* the run still works on its page.
C28_RunUsesOnlyItsOwnBrowser ==
  /\ \A b \in CtxIds :
       /\ cxCtx[b].usedBy \subseteq {cxCtx[b].owner}
       /\ cxCtx[b].closedBy \subseteq {cxCtx[b].owner}
       /\ cxCtx[b].closedIn \subseteq {"finally"}
       /\ cxCtx[b].open <=> cxCtx[b].closedBy = {}
  /\ \A r \in RunIds :
       cxRun[r].pc = "work" =>
          /\ cxRun[r].browser \in CtxIds
          /\ cxCtx[cxRun[r].browser].owner = r
          /\ cxCtx[cxRun[r].browser].open

\* Two runs overlap: the first has closed its browser after working on it
\* while the second, launched in between, is still working on its own.
C28_Witness ==
  /\ Len(cxCtx) = 2
  /\ ~cxCtx[1].open /\ cxCtx[1].usedBy # {}
  /\ cxCtx[2].open /\ cxCtx[2].usedBy # {} /\ cxCtx[2].owner # cxCtx[1].owner
  /\ cxRun[cxCtx[2].owner].pc = "work"
  /\ cxRun[cxCtx[1].owner].pc = "done" /\ cxRun[cxCtx[1].owner].ops = MaxPageOps

(***************************************************************************)
(* Specifications                                                          *)
(***************************************************************************)
InitNav  == NavInit /\ HeurInit /\ PersQuiet /\ LoginQuiet /\ RunQuiet /\ FnQuiet
SpecNav  == InitNav /\ [][NavCall]_vars

InitHeur == NavInit /\ HeurInit /\ PersQuiet /\ LoginQuiet /\ RunQuiet /\ FnQuiet
SpecHeur == InitHeur /\ [][HeurCheck]_vars

InitPersist == NavInit /\ HeurInit /\ PersInit /\ LoginQuiet /\ RunQuiet /\ FnQuiet

NextPersist == PersistStart \/ PersistLookup \/ PersistWrite \/ PersistReturn
SpecPersist == InitPersist /\ [][NextPersist]_vars

NextPersistTwice == TwiceFirst \/ PersistLookup \/ PersistWrite \/ TwiceRepeat
SpecPersistTwice == InitPersist /\ [][NextPersistTwice]_vars

InitLogin == NavInit /\ HeurInit /\ PersQuiet /\ LoginInit /\ RunQuiet /\ FnQuiet
NextLogin ==
  \/ LS_Start \/ LS_LoadCookies \/ LS_InstallCookies \/ LS_Feed
  \/ LS_CookieCheck \/ LS_CredGate \/ LS_CredNav \/ LS_CredPrecheck
  \/ LS_CredFill \/ LS_CredClassify
  \/ P0_LoadCookies \/ P0_SetCookie \/ P0_Feed \/ P0_CookieCheck
  \/ P0_CredNav \/ P0_Form \/ P0_Fill \/ P0_Classify
SpecLogin == InitLogin /\ [][NextLogin]_vars

InitRun == NavInit /\ HeurInit /\ PersQuiet /\ RunInit /\ FnQuiet
NextRun ==
  \/ RS_GetProfiles \/ RS_Setup \/ RS_Login \/ RS_LoginReturned
  \/ RS_ScrapeProfile \/ RS_Completed \/ RS_Finally
  \/ SV_Request \/ SV_Launch \/ SV_LoadCookies \/ SV_Feed \/ SV_Check
  \/ SV_ScrapeUrl \/ SV_Return \/ P1_ScrapeProfile \/ SV_Finally \/ SV_Respond
  \/ LS_Start \/ LS_LoadCookies \/ LS_InstallCookies \/ LS_Feed
  \/ LS_CookieCheck \/ LS_CredGate \/ LS_CredNav \/ LS_CredPrecheck
  \/ LS_CredFill \/ LS_CredClassify
  \/ P0_LoadCookies \/ P0_SetCookie \/ P0_Feed \/ P0_CookieCheck
  \/ P0_CredNav \/ P0_Form \/ P0_Fill \/ P0_Classify
SpecRun == InitRun /\ [][NextRun]_vars

\* Every step of a run is the continuation of an awaited operation that
\* settles (navigations and waits carry timeouts), so a run that can take
\* a step takes one.
SpecRunLive == SpecRun /\ WF_vars(NextRun)

InitBatch == NavInit /\ HeurInit /\ PersQuiet /\ BatchInit /\ FnQuiet
NextBatch ==
  \/ SV_Request \/ SV_Launch \/ SV_LoadCookies \/ SV_Feed \/ SV_Check
  \/ P1_ScrapeProfile \/ SV_Finally \/ P1_BatchDelay \/ P1_BatchRespond
SpecBatch == InitBatch /\ [][NextBatch]_vars

InitExtract ==
  /\ NavInit /\ HeurInit /\ PersQuiet /\ LoginQuiet /\ RunQuiet
  /\ ExtractInit /\ UrlQuiet /\ ExpiryQuiet /\ CtxQuiet /\ DiscoverQuiet
SpecExtract == InitExtract /\ [][ExtractCall]_vars

InitUrl ==
  /\ NavInit /\ HeurInit /\ PersQuiet /\ LoginQuiet /\ RunQuiet
  /\ ExtractQuiet /\ UrlInit /\ ExpiryQuiet /\ CtxQuiet /\ DiscoverQuiet
NextUrl == NormalizeCall \/ NormalizeAgain
SpecUrl == InitUrl /\ [][NextUrl]_vars

InitExpiry ==
  /\ NavInit /\ HeurInit /\ PersQuiet /\ LoginQuiet /\ RunQuiet
  /\ ExtractQuiet /\ UrlQuiet /\ ExpiryInit /\ CtxQuiet /\ DiscoverQuiet
SpecExpiry == InitExpiry /\ [][PredictCall]_vars

InitOverlap ==
  /\ NavInit /\ HeurInit /\ PersQuiet /\ LoginQuiet /\ RunQuiet
  /\ ExtractQuiet /\ UrlQuiet /\ ExpiryQuiet /\ CtxQuiet /\ DiscoverQuiet
NextOverlap ==
  Overlap_Start \/ Overlap_Launch \/ Overlap_PageOp \/ Overlap_Return \/ Overlap_Finally
SpecOverlap == InitOverlap /\ [][NextOverlap]_vars

InitDiscover ==
  /\ NavInit /\ HeurInit /\ PersQuiet /\ LoginQuiet /\ RunQuiet
  /\ DiscoverInit /\ UrlQuiet /\ ExpiryQuiet /\ CtxQuiet
SpecDiscover == InitDiscover /\ [][DiscoverCall]_vars

NextPersistOverlap == OverlapStart \/ OverlapLookup \/ OverlapWrite
SpecPersistOverlap == InitPersist /\ [][NextPersistOverlap]_vars

====
